---- MODULE Spec2Model ----
(***************************************************************************)
(* velitherm: basic thermodynamics equations for soaring flight.           *)
(*                                                                         *)
(* The library (index.ts) is a set of constants and pure functions over    *)
(* the TypeScript type `number`.  The model has three layers:              *)
(*                                                                         *)
(*  1. `number`: a signed decimal fixed-point value with 12 fractional     *)
(*     digits, every operation rounded to the nearest representable value, *)
(*     plus the IEEE-754 specials NaN and +/-Infinity and the value        *)
(*     `undefined` of an omitted optional argument.  Math.log, Math.exp    *)
(*     and Math.pow are computed (argument reduction and power series),    *)
(*     not tabulated.                                                      *)
(*  2. the constants and the exported functions of index.ts, translated    *)
(*     expression by expression.                                           *)
(*  3. the callers: a session that calls the exported functions on fresh   *)
(*     inputs or on the value the previous call returned, and the two      *)
(*     test programs that cross-check adiabaticCooling against gamma; a    *)
(*     caller that passes arbitrary numbers; calling contexts whose calls  *)
(*     interleave; and callers that sweep one function over its inputs or  *)
(*     follow one air mass from level to level.                            *)
(*                                                                         *)
(* The header generator gen_cpp.ts, which rewrites index.ts into a C/C++   *)
(* header chunk by chunk, is modelled after the callers.                   *)
(***************************************************************************)
EXTENDS Integers, Sequences, FiniteSets, TLC

VARIABLES
  pressureMSL,  \* the caller's sea-level pressure of the day, Undefined when it omits it
  temperature,  \* the caller's temperature of the day, Undefined when it omits it
  last,         \* the last call of an exported function: its name, arguments and result
  prev,         \* the call whose result the last call took as its argument, if any
  depth,        \* the number of calls made
  test,         \* the outcome of a test program's main()
  frames,       \* the activation record of the call each calling context is in
  table,        \* the module-level constants of index.ts, by name
  stdin,        \* gen_cpp: the chunks of its input stream and how many it has emitted
  stdout,       \* gen_cpp: what it has written, one element per write
  pc            \* gen_cpp: "idle" (not run), "load", "listening", "ended"

\* The state of the header generator.
build == <<stdin, stdout, pc>>

vars ==
  <<pressureMSL, temperature, last, prev, depth, test, frames, table, build>>

\* The header generator is not run.
Idle ==
  /\ stdin = [chunks |-> <<>>, read |-> 0]
  /\ stdout = <<>>
  /\ pc = "idle"

(***************************************************************************)
(* Layer 1a: natural numbers as little-endian sequences of limbs.          *)
(* <<>> is zero; the last limb of a non-zero number is non-zero.           *)
(***************************************************************************)

\* The number format: limbs of four decimal digits, three of them fractional.
Fmt == [base |-> 10000, frac |-> 3]

Base == Fmt.base

Max(a, b) == IF a >= b THEN a ELSE b

Min(a, b) == IF a <= b THEN a ELSE b

Limb(m, i) == IF i >= 1 /\ i <= Len(m) THEN m[i] ELSE 0

RECURSIVE Trim(_)
Trim(m) ==
  IF m = <<>> THEN <<>>
  ELSE IF m[Len(m)] = 0 THEN Trim(SubSeq(m, 1, Len(m) - 1))
  ELSE m

RECURSIVE Zeros(_)
Zeros(n) == IF n <= 0 THEN <<>> ELSE <<0>> \o Zeros(n - 1)

\* Columns of arbitrary integers to limbs: column i of `raw` plus the carry c.
RECURSIVE Carry(_, _, _)
Carry(raw, i, c) ==
  IF i > Len(raw)
  THEN IF c = 0 THEN <<>> ELSE <<c % Base>> \o Carry(raw, i, c \div Base)
  ELSE LET v == raw[i] + c
       IN  <<v % Base>> \o Carry(raw, i + 1, v \div Base)

RECURSIVE FromNat(_)
FromNat(n) == IF n = 0 THEN <<>> ELSE <<n % Base>> \o FromNat(n \div Base)

NAdd(a, b) ==
  Trim(Carry([i \in 1..Max(Len(a), Len(b)) |-> Limb(a, i) + Limb(b, i)], 1, 0))

\* a - b for a >= b
NSub(a, b) ==
  Trim(Carry([i \in 1..Len(a) |-> a[i] - Limb(b, i)], 1, 0))

\* -1, 0, 1 as a < b, a = b, a > b, comparing from limb i down
RECURSIVE NCmpFrom(_, _, _)
NCmpFrom(a, b, i) ==
  IF i = 0 THEN 0
  ELSE IF a[i] < b[i] THEN -1
  ELSE IF a[i] > b[i] THEN 1
  ELSE NCmpFrom(a, b, i - 1)

NCmp(a, b) ==
  IF Len(a) < Len(b) THEN -1
  ELSE IF Len(a) > Len(b) THEN 1
  ELSE NCmpFrom(a, b, Len(a))

\* sum of a[i] * b[k + 1 - i] for i from lo to hi
RECURSIVE Column(_, _, _, _, _)
Column(a, b, k, i, hi) ==
  IF i > hi THEN 0
  ELSE a[i] * b[k + 1 - i] + Column(a, b, k, i + 1, hi)

NMul(a, b) ==
  IF a = <<>> \/ b = <<>> THEN <<>>
  ELSE Trim(Carry([k \in 1..(Len(a) + Len(b) - 1) |->
                     Column(a, b, k, Max(1, k + 1 - Len(b)), Min(k, Len(a)))],
                  1, 0))

\* a * c for a small natural c
NMulSmall(a, c) == Trim(Carry([i \in 1..Len(a) |-> a[i] * c], 1, 0))

\* the limbs of floor(a / c) from limb i down, r the running remainder
RECURSIVE NDivSmallFrom(_, _, _, _)
NDivSmallFrom(a, c, i, r) ==
  IF i = 0 THEN <<>>
  ELSE LET cur == r * Base + a[i]
       IN  IF cur < c THEN NDivSmallFrom(a, c, i - 1, cur) \o <<0>>
           ELSE NDivSmallFrom(a, c, i - 1, cur % c) \o <<cur \div c>>

\* floor(a / c) for a natural 0 < c <= 200000
NDivSmall(a, c) == Trim(NDivSmallFrom(a, c, Len(a), 0))

NShl(m, k) == IF m = <<>> THEN <<>> ELSE Zeros(k) \o m

NShr(m, k) == IF k >= Len(m) THEN <<>> ELSE SubSeq(m, k + 1, Len(m))

\* The largest q with q * d <= rem, given the estimate q >= that value.
RECURSIVE QuotFix(_, _, _)
QuotFix(rem, d, q) ==
  IF q = 0 \/ NCmp(NMulSmall(d, q), rem) <= 0 THEN q
  ELSE QuotFix(rem, d, q - 1)

\* One quotient limb: rem < d * Base, d normalised (top limb >= Base / 2).
QuotLimb(rem, d) ==
  IF NCmp(rem, d) < 0 THEN 0
  ELSE LET n == Len(d)
           top == Limb(rem, n + 1) * Base + Limb(rem, n)
       IN  QuotFix(rem, d, Min(Base - 1, top \div d[n]))

\* Schoolbook long division: the quotient limbs i down to 1, limb i of a
\* brought down next, rem the running remainder.
RECURSIVE LongDivFrom(_, _, _, _)
LongDivFrom(a, d, i, rem) ==
  IF i = 0 THEN <<>>
  ELSE LET cur == Trim(<<a[i]>> \o rem)
           q == QuotLimb(cur, d)
       IN  IF q = 0 THEN LongDivFrom(a, d, i - 1, cur) \o <<0>>
           ELSE LongDivFrom(a, d, i - 1, NSub(cur, NMulSmall(d, q))) \o <<q>>

\* floor(a / d) for d # 0: both scaled to normalise d, the top Len(d) - 1
\* limbs of a are the first remainder.
NDiv(a, d) ==
  LET f == Base \div (d[Len(d)] + 1)
      an == NMulSmall(a, f)
      dn == NMulSmall(d, f)
      n == Len(an) - Len(dn) + 1
  IN  IF n <= 0 THEN <<>>
      ELSE Trim(LongDivFrom(an, dn, n, Trim(SubSeq(an, n + 1, Len(an)))))

(***************************************************************************)
(* Layer 1b: the TypeScript type `number`.                                 *)
(* [k |-> "fin", s |-> sign, m |-> limbs] is the value s * m / Base^3;     *)
(* zero is signed.  NaN, Inf(s) are the IEEE-754 specials and Undefined    *)
(* is the value of an omitted argument.  A magnitude under Base^-3 / 2     *)
(* rounds to a zero where a double keeps a tiny finite value.              *)
(***************************************************************************)

Fin(s, m) == [k |-> "fin", s |-> s, m |-> m]

NaN == [k |-> "nan", s |-> 1, m |-> <<>>]

Inf(s) == [k |-> "inf", s |-> s, m |-> <<>>]

Undefined == [k |-> "undef", s |-> 1, m |-> <<>>]

\* The literal s * (i + f1/10^4 + f2/10^8 + f3/10^12), i a natural number.
Num(s, i, f1, f2, f3) == Fin(s, Trim(<<f3, f2, f1>> \o FromNat(i)))

IntNum(n) == IF n < 0 THEN Num(-1, -n, 0, 0, 0) ELSE Num(1, n, 0, 0, 0)

Zero == IntNum(0)

One == IntNum(1)

IsFinite(x) == x.k = "fin"

IsNaN(x) == x.k = "nan"

IsZero(x) == x.k = "fin" /\ x.m = <<>>

\* Number.isInteger: the three fractional limbs are zero
IsInteger(x) ==
  x.k = "fin" /\ \A i \in 1..Min(Fmt.frac, Len(x.m)) : x.m[i] = 0

Neg(x) == IF x.k = "fin" THEN Fin(-x.s, x.m)
          ELSE IF x.k = "inf" THEN Inf(-x.s)
          ELSE x

Abs(x) == IF x.k = "fin" THEN Fin(1, x.m)
          ELSE IF x.k = "inf" THEN Inf(1)
          ELSE x

\* -1, 0, 1 for finite or infinite x, y
Cmp(x, y) ==
  IF x.k = "inf" \/ y.k = "inf"
  THEN LET a == IF x.k = "inf" THEN 2 * x.s ELSE 0
           b == IF y.k = "inf" THEN 2 * y.s ELSE 0
       IN  IF a < b THEN -1 ELSE IF a > b THEN 1 ELSE 0
  ELSE IF x.m = <<>> /\ y.m = <<>> THEN 0
  ELSE IF x.s # y.s THEN (IF x.s < y.s THEN -1 ELSE 1)
  ELSE x.s * NCmp(x.m, y.m)

\* Comparisons are false when an operand is NaN, as in IEEE-754.
Ordered(x, y) == x.k \in {"fin", "inf"} /\ y.k \in {"fin", "inf"}

Lt(x, y) == Ordered(x, y) /\ Cmp(x, y) < 0

Le(x, y) == Ordered(x, y) /\ Cmp(x, y) <= 0

\* x + y
Add(x, y) ==
  IF x.k \notin {"fin", "inf"} \/ y.k \notin {"fin", "inf"} THEN NaN
  ELSE IF x.k = "inf"
       THEN (IF y.k = "inf" /\ y.s # x.s THEN NaN ELSE x)
  ELSE IF y.k = "inf" THEN y
  ELSE IF x.s = y.s THEN Fin(x.s, NAdd(x.m, y.m))
  ELSE IF NCmp(x.m, y.m) = 0 THEN Zero
  ELSE IF NCmp(x.m, y.m) > 0 THEN Fin(x.s, NSub(x.m, y.m))
  ELSE Fin(y.s, NSub(y.m, x.m))

\* x - y
Sub(x, y) == Add(x, Neg(y))

\* m / Base^3 rounded to the nearest unit
RoundShr(m) == NShr(NAdd(m, <<0, 0, Base \div 2>>), Fmt.frac)

\* x * y
Mul(x, y) ==
  IF x.k \notin {"fin", "inf"} \/ y.k \notin {"fin", "inf"} THEN NaN
  ELSE IF x.k = "inf" \/ y.k = "inf"
       THEN (IF IsZero(x) \/ IsZero(y) THEN NaN ELSE Inf(x.s * y.s))
  ELSE Fin(x.s * y.s, RoundShr(NMul(x.m, y.m)))

\* x / y
Div(x, y) ==
  IF x.k \notin {"fin", "inf"} \/ y.k \notin {"fin", "inf"} THEN NaN
  ELSE IF x.k = "inf"
       THEN (IF y.k = "inf" THEN NaN ELSE Inf(x.s * y.s))
  ELSE IF y.k = "inf" THEN Fin(x.s * y.s, <<>>)
  ELSE IF IsZero(y)
       THEN (IF IsZero(x) THEN NaN ELSE Inf(x.s * y.s))
  ELSE Fin(x.s * y.s,
           NDiv(NAdd(NShl(x.m, Fmt.frac), NDivSmall(y.m, 2)), y.m))

\* x / n for a finite x and a small natural n > 0
DivInt(x, n) == Fin(x.s, NDivSmall(NAdd(x.m, FromNat(n \div 2)), n))

\* x * n for a finite x and a small natural n
MulInt(x, n) == Fin(x.s, NMulSmall(x.m, n))

\* Math.floor of a finite x
Floor(x) ==
  LET ip == NShl(NShr(x.m, Fmt.frac), Fmt.frac)
  IN  IF x.s = 1 \/ IsInteger(x) THEN Fin(x.s, ip)
      ELSE Fin(-1, NAdd(ip, NShl(<<1>>, Fmt.frac)))

\* Math.round: the nearest integer, ties towards +Infinity; -0 for
\* -0.5 <= x <= -0
Round(x) ==
  IF x.k # "fin" THEN x
  ELSE LET r == Floor(Add(x, Num(1, 0, 5000, 0, 0)))
       IN  IF IsZero(r) THEN Fin(x.s, <<>>) ELSE r

(***************************************************************************)
(* Layer 1c: Math.exp, Math.log and Math.pow.                              *)
(***************************************************************************)

\* ln 2 to twelve digits
LN2 == Num(1, 0, 6931, 4718, 560)

\* 1/16: below it eight terms of the series of e^x give twelve digits
Small == Num(1, 0, 625, 0, 0)

\* The number of halvings that bring |x| to at most 1/16.
RECURSIVE Halvings(_)
Halvings(x) == IF Le(Abs(x), Small) THEN 0 ELSE 1 + Halvings(DivInt(x, 2))

RECURSIVE HalveN(_, _)
HalveN(x, n) == IF n = 0 \/ IsZero(x) THEN x ELSE HalveN(DivInt(x, 2), n - 1)

RECURSIVE SquareN(_, _)
SquareN(x, n) == IF n = 0 \/ IsZero(x) THEN x ELSE SquareN(Mul(x, x), n - 1)

\* acc + term * r/n + term * r^2/(n(n+1)) + ... until the sum is stationary
RECURSIVE ExpSeries(_, _, _, _)
ExpSeries(r, term, n, acc) ==
  LET t == DivInt(Mul(term, r), n)
      sum == Add(acc, t)
  IN  IF sum = acc THEN acc ELSE ExpSeries(r, t, n + 1, sum)

\* Math.exp: e^x = (e^(x / 2^n))^(2^n), the inner one by its Taylor series;
\* a double overflows to Infinity above 709.78 and underflows to 0 below -745.
Exp(x) ==
  IF x.k = "inf" THEN (IF x.s = 1 THEN Inf(1) ELSE Zero)
  ELSE IF x.k # "fin" THEN NaN
  ELSE IF Lt(IntNum(709), x) THEN Inf(1)
  ELSE IF Lt(x, IntNum(-745)) THEN Zero
  ELSE LET n == Halvings(x)
       IN  SquareN(ExpSeries(HalveN(x, n), One, 1, One), n)

\* x = m * 2^k with 2/3 <= m <= 4/3: the pair <<m, k>>
RECURSIVE LnReduce(_, _)
LnReduce(x, k) ==
  IF Lt(Num(1, 1, 3334, 0, 0), x) THEN LnReduce(DivInt(x, 2), k + 1)
  ELSE IF Lt(x, Num(1, 0, 6666, 0, 0)) THEN LnReduce(MulInt(x, 2), k - 1)
  ELSE <<x, k>>

\* acc + pw * z2 / n + pw * z2^2 / (n + 2) + ... until the sum is stationary
RECURSIVE AtanhSeries(_, _, _, _)
AtanhSeries(z2, pw, n, acc) ==
  LET p == Mul(pw, z2)
      t == DivInt(p, n)
      sum == Add(acc, t)
  IN  IF sum = acc THEN acc ELSE AtanhSeries(z2, p, n + 2, sum)

\* Math.log: ln x = k ln 2 + 2 atanh((m - 1) / (m + 1)) for x = m * 2^k
Log(x) ==
  IF x.k = "inf" THEN (IF x.s = 1 THEN Inf(1) ELSE NaN)
  ELSE IF x.k # "fin" THEN NaN
  ELSE IF IsZero(x) THEN Inf(-1)
  ELSE IF x.s = -1 THEN NaN
  ELSE LET mk == LnReduce(x, 0)
           z == Div(Sub(mk[1], One), Add(mk[1], One))
       IN  IF IsZero(z) THEN Mul(IntNum(mk[2]), LN2)
           ELSE Add(Mul(IntNum(mk[2]), LN2),
                    MulInt(AtanhSeries(Mul(z, z), z, 3, z), 2))

IsOddInteger(y) == IsInteger(y) /\ Limb(y.m, Fmt.frac + 1) % 2 = 1

\* Math.pow
Pow(x, y) ==
  IF IsZero(y) THEN One
  ELSE IF x.k \notin {"fin", "inf"} \/ y.k \notin {"fin", "inf"} THEN NaN
  ELSE IF IsZero(x)
       THEN LET s == IF x.s = -1 /\ IsOddInteger(y) THEN -1 ELSE 1
            IN  IF y.s = 1 THEN Fin(s, <<>>) ELSE Inf(s)
  ELSE IF x.s = 1 THEN Exp(Mul(y, Log(x)))
  ELSE IF IsInteger(y)
       THEN (IF IsOddInteger(y) THEN Neg(Exp(Mul(y, Log(Neg(x)))))
             ELSE Exp(Mul(y, Log(Neg(x)))))
  ELSE IF y.k = "inf" THEN Exp(Mul(y, Log(Neg(x))))
  ELSE IF x.k = "inf" THEN (IF y.s = 1 THEN Inf(1) ELSE Zero)
  ELSE NaN

(***************************************************************************)
(* Layer 2: index.ts, the constants and the exported functions.            *)
(***************************************************************************)

\* Earth's average gravity acceleration (m/s2): 9.81
G == Num(1, 9, 8100, 0, 0)

\* The thermal capacity of air (J/kg): 1005
Cp == IntNum(1005)

\* Release 1.1.0 of L: 2500 * 10e6, which is 2.5e10.
L_v1 == Mul(IntNum(2500), IntNum(10000000))

\* The enthalpy of vaporization of water (J/kg): 2.5e6
L == IntNum(2500000)

\* The adiabatic lapse rate of dry air (degC/m): 0.00976
gamma == Num(1, 0, 97, 6000, 0)

\* The environmental lapse rate (degC/m): 0.0065
ELR == Num(1, 0, 65, 0, 0)

\* The average sea level pressure (hPa): 1013.25
P0 == Num(1, 1013, 2500, 0, 0)

\* The temperature of the ICAO standard atmosphere (degC): 15
T0 == IntNum(15)

\* The specific gas constant of dry air J/(kg*K): 287.058
Rd == Num(1, 287, 580, 0, 0)

\* The specific gas constant of water vapor J/(kg*K): 461.495
Rv == Num(1, 461, 4950, 0, 0)

\* Molar mass of dry air kg/mol: 0.0289652
Md == Num(1, 0, 289, 6520, 0)

\* Molar mass of water vapor kg/mol: 0.018016
Mv == Num(1, 0, 180, 1600, 0)

\* Universal gas constant J/(kg*mol): 8.31446
R == Num(1, 8, 3144, 6000, 0)

\* Absolute zero in degC: -273.15
K == Num(-1, 273, 1500, 0, 0)

\* Number of feet in one meter: 3.28084
feetPerMeter == Num(1, 3, 2808, 4000, 0)

\* A parameter `x: number = d`: the default replaces an omitted argument.
\* A slip: no default, the omitted argument stays undefined.
Default_none(x, d) == x

Default(x, d) == IF x = Undefined THEN d ELSE x

\* A slip: the exponent of altitudeFromStandardPressure, 1 / 5.255, used here.
pressureFromStandardAltitude_inverseExponent(height, pressure0) ==
  LET p0 == Default(pressure0, P0)
  IN  Mul(p0, Pow(Sub(One, Div(height, IntNum(44330))),
                  Div(One, Num(1, 5, 2550, 0, 0))))

\* A slip: the ratio inverted, pressure0 / pressure.
altitudeFromStandardPressure_inverted(pressure, pressure0) ==
  LET p0 == Default(pressure0, P0)
  IN  Mul(IntNum(44330),
          Sub(One, Pow(Div(p0, pressure), Div(One, Num(1, 5, 2550, 0, 0)))))

altitudeFromStandardPressure(pressure, pressure0) ==
  LET p0 == Default(pressure0, P0)
  IN  Mul(IntNum(44330),
          Sub(One, Pow(Div(pressure, p0), Div(One, Num(1, 5, 2550, 0, 0)))))

pressureFromStandardAltitude(height, pressure0) ==
  LET p0 == Default(pressure0, P0)
  IN  Mul(p0, Pow(Sub(One, Div(height, IntNum(44330))), Num(1, 5, 2550, 0, 0)))

\* Release 1.1.0 of altitudeFromPressure: the barometric form, rounded.
altitudeFromPressure_v1(pressure, pressure0, temp) ==
  LET p0 == Default(pressure0, P0)
      t == Default(temp, T0)
  IN  Round(Div(Mul(Sub(Pow(Div(p0, pressure), Div(One, Num(1, 5, 2570, 0, 0))),
                        One),
                    Add(t, Num(1, 273, 1500, 0, 0))),
                Num(1, 0, 65, 0, 0)))

\* The hypsometric form with the rounding of the releases before 1.2.0.
altitudeFromPressure_rounded(pressure, pressure0, temp) ==
  LET p0 == Default(pressure0, P0)
      t == Default(temp, T0)
  IN  Round(Mul(Mul(Num(1, 29, 3000, 0, 0), Sub(t, K)), Log(Div(p0, pressure))))

\* A slip: the ratio inverted, pressure / pressure0.
altitudeFromPressure_inverted(pressure, pressure0, temp) ==
  LET p0 == Default(pressure0, P0)
      t == Default(temp, T0)
  IN  Mul(Mul(Num(1, 29, 3000, 0, 0), Sub(t, K)), Log(Div(pressure, p0)))

altitudeFromPressure(pressure, pressure0, temp) ==
  LET p0 == Default(pressure0, P0)
      t == Default(temp, T0)
  IN  Mul(Mul(Num(1, 29, 3000, 0, 0), Sub(t, K)), Log(Div(p0, pressure)))

\* Release 1.1.0 of pressureFromAltitude: the barometric form, rounded.
pressureFromAltitude_v1(height, pressure0, temp) ==
  LET p0 == Default(pressure0, P0)
      t == Default(temp, T0)
      dh == Mul(Num(1, 0, 65, 0, 0), height)
  IN  Round(Mul(p0, Pow(Sub(One, Div(dh, Add(Add(t, Num(1, 273, 1500, 0, 0)),
                                               dh))),
                        Num(1, 5, 2570, 0, 0))))

pressureFromAltitude(height, pressure0, temp) ==
  LET p0 == Default(pressure0, P0)
      t == Default(temp, T0)
  IN  Div(p0, Exp(Div(height, Mul(Num(1, 29, 3000, 0, 0), Sub(t, K)))))

\* A slip: the sign of 237.3, temp - 237.3.
waterVaporSaturationPressure_minus(temp) ==
  LET t == Default(temp, T0)
  IN  Mul(Num(1, 6, 1078, 0, 0),
          Exp(Div(Mul(Num(1, 17, 2700, 0, 0), t),
                  Sub(t, Num(1, 237, 3000, 0, 0)))))

waterVaporSaturationPressure(temp) ==
  LET t == Default(temp, T0)
  IN  Mul(Num(1, 6, 1078, 0, 0),
          Exp(Div(Mul(Num(1, 17, 2700, 0, 0), t),
                  Add(t, Num(1, 237, 3000, 0, 0)))))

\* A slip: the coefficient written 0.622 as in specificHumidity, without the
\* factor 1000 / 100 that 6.22 carries.
relativeHumidity_coefficient(q, pressure, temp) ==
  LET p == Default(pressure, P0)
      t == Default(temp, T0)
  IN  Div(q, Div(Mul(Num(1, 0, 6220, 0, 0), waterVaporSaturationPressure(t)),
                 p))

relativeHumidity(q, pressure, temp) ==
  LET p == Default(pressure, P0)
      t == Default(temp, T0)
  IN  Div(q, Div(Mul(Num(1, 6, 2200, 0, 0), waterVaporSaturationPressure(t)),
                 p))

Sonntag_1990_b == Num(1, 17, 6200, 0, 0)

Sonntag_1990_c == Num(1, 243, 1200, 0, 0)

dewPoint(rh, temp) ==
  LET t == Default(temp, T0)
      g == Add(Log(Div(rh, IntNum(100))),
               Div(Mul(Sonntag_1990_b, t), Add(Sonntag_1990_c, t)))
  IN  Div(Mul(Sonntag_1990_c, g), Sub(Sonntag_1990_b, g))

\* A slip: a fraction returned where a percentage is due.
relativeHumidityFromDewPoint_fraction(td, temp) ==
  LET t == Default(temp, T0)
      g == Div(Mul(td, Sonntag_1990_b), Add(td, Sonntag_1990_c))
  IN  Exp(Sub(g, Div(Mul(Sonntag_1990_b, t), Add(Sonntag_1990_c, t))))

relativeHumidityFromDewPoint(td, temp) ==
  LET t == Default(temp, T0)
      g == Div(Mul(td, Sonntag_1990_b), Add(td, Sonntag_1990_c))
  IN  Mul(Exp(Sub(g, Div(Mul(Sonntag_1990_b, t), Add(Sonntag_1990_c, t)))),
          IntNum(100))

\* A guard the code does not have: a zero denominator refused with no value.
mixingRatio_checked(q) ==
  IF Sub(One, Div(q, IntNum(1000))) = Zero THEN Undefined
  ELSE Div(q, Sub(One, Div(q, IntNum(1000))))

mixingRatio(q) == Div(q, Sub(One, Div(q, IntNum(1000))))

\* A slip: the denominator of mixingRatio, 1 - w / 1000, used here.
specificHumidityFromMixingRatio_minus(w) ==
  Div(w, Sub(One, Div(w, IntNum(1000))))

specificHumidityFromMixingRatio(w) == Div(w, Add(One, Div(w, IntNum(1000))))

specificHumidity(rh, pressure, temp) ==
  LET p == Default(pressure, P0)
      t == Default(temp, T0)
  IN  Mul(Mul(Div(rh, IntNum(100)),
              Div(Mul(Num(1, 0, 6220, 0, 0), waterVaporSaturationPressure(t)),
                  p)),
          IntNum(1000))

\* A slip: the molar masses exchanged, Pd * Mv + Pv * Md.
airDensity_exchanged(rh, pressure, temp) ==
  LET p == Default(pressure, P0)
      t == Default(temp, T0)
      Psat == waterVaporSaturationPressure(t)
      Pv == Mul(Div(rh, IntNum(100)), Psat)
      Pd == Sub(p, Pv)
  IN  Div(Mul(IntNum(100), Add(Mul(Pd, Mv), Mul(Pv, Md))), Mul(R, Sub(t, K)))

airDensity(rh, pressure, temp) ==
  LET p == Default(pressure, P0)
      t == Default(temp, T0)
      Psat == waterVaporSaturationPressure(t)
      Pv == Mul(Div(rh, IntNum(100)), Psat)
      Pd == Sub(p, Pv)
  IN  Div(Mul(IntNum(100), Add(Mul(Pd, Md), Mul(Pv, Mv))), Mul(R, Sub(t, K)))

\* A slip: Espy's coefficient in its rounded form, 125 m per degree.
LCL_espy(temp, td) == Mul(IntNum(125), Sub(temp, td))

LCL(temp, td) == Mul(Num(1, 126, 7000, 0, 0), Sub(temp, td))

\* Release 1.1.0 of gammaMoist: the literal 9.8e-3 for G * 1e-3.
gammaMoist_v1(temp, pressure) ==
  LET p == Default(pressure, P0)
      tK == Sub(temp, K)
      es == Mul(Num(1, 6, 1130, 0, 0),
                Exp(Mul(IntNum(5423),
                        Sub(Div(IntNum(-1), K), Div(One, tK)))))
      rs == Div(Mul(Num(1, 0, 6220, 0, 0), es), Sub(p, es))
  IN  Div(Mul(Num(1, 0, 98, 0, 0),
              Add(One, Div(Mul(IntNum(8711), rs), tK))),
          Add(One, Div(Mul(IntNum(13500000), rs), Mul(tK, tK))))

\* heat capacity ratio of air: 1.4
gammaMoist(temp, pressure) ==
  LET p == Default(pressure, P0)
      tK == Sub(temp, K)
      es == Mul(Num(1, 6, 1130, 0, 0),
                Exp(Mul(IntNum(5423),
                        Sub(Div(IntNum(-1), K), Div(One, tK)))))
      rs == Div(Mul(Num(1, 0, 6220, 0, 0), es), Sub(p, es))
  IN  Div(Mul(Mul(G, Num(1, 0, 10, 0, 0)),
              Add(One, Div(Mul(IntNum(8711), rs), tK))),
          Add(One, Div(Mul(IntNum(13500000), rs), Mul(tK, tK))))

\* heat capacity ratio of air: 1.4
HCR == Num(1, 1, 4000, 0, 0)

adiabaticExpansion(volume0, pressure, pressure0) ==
  LET p0 == Default(pressure0, P0)
  IN  Mul(volume0, Pow(Div(p0, pressure), Div(One, HCR)))

\* A slip: the result left in kelvins, the final "+ K" forgotten.
adiabaticCooling_kelvin(temp0, pressure, pressure0) ==
  LET p0 == Default(pressure0, P0)
  IN  Mul(Sub(temp0, K), Pow(Div(pressure, p0), Div(Sub(HCR, One), HCR)))

adiabaticCooling(temp0, pressure, pressure0) ==
  LET p0 == Default(pressure0, P0)
  IN  Add(Mul(Sub(temp0, K), Pow(Div(pressure, p0), Div(Sub(HCR, One), HCR))),
          K)

\* A slip: feet taken for meters, FL * 100 multiplied by feetPerMeter.
pressureFromFL_feet(FL) ==
  pressureFromStandardAltitude(Mul(Mul(FL, IntNum(100)), feetPerMeter), P0)

pressureFromFL(FL) ==
  pressureFromStandardAltitude(Div(Mul(FL, IntNum(100)), feetPerMeter), P0)

\* A slip: the flight level rounded by the library, not by the caller.
FLFromPressure_rounded(P) ==
  Round(Div(Mul(altitudeFromStandardPressure(P, P0), feetPerMeter),
            IntNum(100)))

FLFromPressure(P) ==
  Div(Mul(altitudeFromStandardPressure(P, P0), feetPerMeter), IntNum(100))

(***************************************************************************)
(* Layer 3: the callers.                                                   *)
(*                                                                         *)
(* A session is what the example programs do: it fixes the pressure and    *)
(* the temperature of the day (or omits them, taking the defaults), calls  *)
(* an exported function on an input of its own and then feeds each result  *)
(* to a function that takes a value of that unit.                          *)
(***************************************************************************)

\* The longest chain of calls of a session.
MaxChain == 2

Pressures ==
  {IntNum(200), IntNum(821), Num(1, 898, 7460, 0, 0), P0, IntNum(1050)}

Altitudes == {Zero, IntNum(100), IntNum(1000), IntNum(4182)}

Humidities == {IntNum(10), IntNum(35), IntNum(60), IntNum(100)}

SpecificHumidities == {Zero, Num(1, 6, 600, 0, 0), IntNum(50), IntNum(1000)}

MixingRatios == {Zero, Num(1, 6, 900, 0, 0), IntNum(50), IntNum(3000)}

DewPoints == {Num(-1, 4, 0, 0, 0), Num(1, 6, 7000, 0, 0)}

ParcelTemperatures == {IntNum(-40), IntNum(20)}

Volumes == {One, Num(1, 2, 5000, 0, 0)}

FlightLevels == {Zero, Num(1, 57, 5000, 0, 0), IntNum(115), IntNum(300)}

PressuresMSL == {Undefined, IntNum(1000), IntNum(1017)}

Temperatures == {Undefined, IntNum(-20), IntNum(40)}

NoCall == [fn |-> "none", args |-> <<>>, ret |-> Undefined]

\* The number of calling contexts.
NContexts == 2

Contexts == 1..NContexts

\* A context that is not in a call.
NoFrame ==
  [pc |-> "idle", fn |-> "none", args |-> <<>>, params |-> <<>>,
   ret |-> Undefined, overlapped |-> FALSE]

NoFrames == [c \in Contexts |-> NoFrame]

\* The `export const` declarations of index.ts and its two module constants.
ConstantTable ==
  [G |-> G, Cp |-> Cp, L |-> L, gamma |-> gamma, ELR |-> ELR, P0 |-> P0,
   T0 |-> T0, Rd |-> Rd, Rv |-> Rv, Md |-> Md, Mv |-> Mv, R |-> R, K |-> K,
   feetPerMeter |-> feetPerMeter, HCR |-> HCR,
   Sonntag_1990_b |-> Sonntag_1990_b, Sonntag_1990_c |-> Sonntag_1990_c]

NoTest ==
  [prog |-> "none", gammaCalc |-> Undefined, against |-> Undefined,
   passed |-> FALSE]

\* The unit of the value an exported function returns.
Returns(fn) ==
  CASE fn \in {"altitudeFromStandardPressure", "altitudeFromPressure", "LCL"}
         -> "m"
    [] fn \in {"pressureFromStandardAltitude", "pressureFromAltitude",
               "pressureFromFL"} -> "hPa"
    [] fn \in {"relativeHumidity", "relativeHumidityFromDewPoint"} -> "%"
    [] fn \in {"specificHumidity", "specificHumidityFromMixingRatio"} -> "q"
    [] fn = "mixingRatio" -> "w"
    [] fn = "dewPoint" -> "Td"
    [] fn = "adiabaticCooling" -> "degC"
    [] fn = "FLFromPressure" -> "FL"
    [] OTHER -> "other"

Fresh(unit) ==
  CASE unit = "hPa" -> Pressures
    [] unit = "m" -> Altitudes
    [] unit = "%" -> Humidities
    [] unit = "q" -> SpecificHumidities
    [] unit = "w" -> MixingRatios
    [] unit = "Td" -> DewPoints
    [] unit = "degC" -> ParcelTemperatures
    [] unit = "FL" -> FlightLevels

\* What a call may take as its argument of the given unit: an input of the
\* session when it is the first call, the previous result after that.
Inputs(unit) ==
  IF test # NoTest THEN {}
  ELSE IF depth = 0 THEN Fresh(unit)
  ELSE IF depth < MaxChain /\ Returns(last.fn) = unit THEN {last.ret}
  ELSE {}

Call(fn, args, ret) ==
  /\ last' = [fn |-> fn, args |-> args, ret |-> ret]
  /\ prev' = last
  /\ depth' = depth + 1
  /\ UNCHANGED <<pressureMSL, temperature, test, frames, table, build>>

Init ==
  /\ pressureMSL \in PressuresMSL
  /\ temperature \in Temperatures
  /\ last = NoCall
  /\ prev = NoCall
  /\ depth = 0
  /\ test = NoTest
  /\ frames = NoFrames
  /\ table = ConstantTable
  /\ Idle

CallAltitudeFromStandardPressure ==
  \E pressure \in Inputs("hPa") :
    Call("altitudeFromStandardPressure", <<pressure, pressureMSL>>,
         altitudeFromStandardPressure(pressure, pressureMSL))

CallPressureFromStandardAltitude ==
  \E height \in Inputs("m") :
    Call("pressureFromStandardAltitude", <<height, pressureMSL>>,
         pressureFromStandardAltitude(height, pressureMSL))

CallAltitudeFromPressure ==
  \E pressure \in Inputs("hPa") :
    Call("altitudeFromPressure", <<pressure, pressureMSL, temperature>>,
         altitudeFromPressure(pressure, pressureMSL, temperature))

CallPressureFromAltitude ==
  \E height \in Inputs("m") :
    Call("pressureFromAltitude", <<height, pressureMSL, temperature>>,
         pressureFromAltitude(height, pressureMSL, temperature))

CallWaterVaporSaturationPressure ==
  /\ depth = 0
  /\ test = NoTest
  /\ Call("waterVaporSaturationPressure", <<temperature>>,
          waterVaporSaturationPressure(temperature))

CallRelativeHumidity ==
  \E q \in Inputs("q") :
    Call("relativeHumidity", <<q, pressureMSL, temperature>>,
         relativeHumidity(q, pressureMSL, temperature))

CallDewPoint ==
  \E rh \in Inputs("%") :
    Call("dewPoint", <<rh, temperature>>, dewPoint(rh, temperature))

CallRelativeHumidityFromDewPoint ==
  \E td \in Inputs("Td") :
    Call("relativeHumidityFromDewPoint", <<td, temperature>>,
         relativeHumidityFromDewPoint(td, temperature))

CallMixingRatio ==
  \E q \in Inputs("q") : Call("mixingRatio", <<q>>, mixingRatio(q))

CallSpecificHumidityFromMixingRatio ==
  \E w \in Inputs("w") :
    Call("specificHumidityFromMixingRatio", <<w>>,
         specificHumidityFromMixingRatio(w))

CallSpecificHumidity ==
  \E rh \in Inputs("%") :
    Call("specificHumidity", <<rh, pressureMSL, temperature>>,
         specificHumidity(rh, pressureMSL, temperature))

CallAirDensity ==
  \E rh \in Inputs("%") :
    Call("airDensity", <<rh, pressureMSL, temperature>>,
         airDensity(rh, pressureMSL, temperature))

CallLCL ==
  /\ temperature # Undefined
  /\ \E td \in Inputs("Td") :
       Call("LCL", <<temperature, td>>, LCL(temperature, td))

CallGammaMoist ==
  \E temp \in Inputs("degC") :
    Call("gammaMoist", <<temp, pressureMSL>>, gammaMoist(temp, pressureMSL))

CallAdiabaticExpansion ==
  \E volume0 \in Volumes, pressure \in Inputs("hPa") :
    Call("adiabaticExpansion", <<volume0, pressure, pressureMSL>>,
         adiabaticExpansion(volume0, pressure, pressureMSL))

CallAdiabaticCooling ==
  /\ temperature # Undefined
  /\ \E pressure \in Inputs("hPa") :
       Call("adiabaticCooling", <<temperature, pressure, pressureMSL>>,
            adiabaticCooling(temperature, pressure, pressureMSL))

CallPressureFromFL ==
  \E FL \in Inputs("FL") : Call("pressureFromFL", <<FL>>, pressureFromFL(FL))

CallFLFromPressure ==
  \E P \in Inputs("hPa") : Call("FLFromPressure", <<P>>, FLFromPressure(P))

\* 1e-5, the tolerance of the two test programs
TestTolerance == Num(1, 0, 0, 1000, 0)

RunTest(prog, g, against) ==
  /\ depth = 0
  /\ test = NoTest
  /\ test' = [prog |-> prog, gammaCalc |-> g, against |-> against,
              passed |-> Lt(Abs(Sub(g, against)), TestTolerance)]
  /\ UNCHANGED <<pressureMSL, temperature, last, prev, depth, frames, table, build>>

\* test.cc, main(): the C++ test compares its local `gamma` with
\* velitherm::gamma, the optional pressure0 omitted in the three calls.
TestCxxMain ==
  LET g == Div(Sub(T0, adiabaticCooling(T0,
                         pressureFromStandardAltitude(IntNum(100), Undefined),
                         pressureFromStandardAltitude(Zero, Undefined))),
               IntNum(100))
  IN  RunTest("test.cc", g, gamma)

\* The C test, main(): C has no default arguments, P0 is passed; the local
\* `double gamma` hides the constant, so `gamma - gamma` is the local both times.
TestCMain ==
  LET g == Div(Sub(T0, adiabaticCooling(T0,
                         pressureFromStandardAltitude(IntNum(100), P0),
                         pressureFromStandardAltitude(Zero, P0))),
               IntNum(100))
  IN  RunTest("test.c", g, g)

Next ==
  \/ CallAltitudeFromStandardPressure
  \/ CallPressureFromStandardAltitude
  \/ CallAltitudeFromPressure
  \/ CallPressureFromAltitude
  \/ CallWaterVaporSaturationPressure
  \/ CallRelativeHumidity
  \/ CallDewPoint
  \/ CallRelativeHumidityFromDewPoint
  \/ CallMixingRatio
  \/ CallSpecificHumidityFromMixingRatio
  \/ CallSpecificHumidity
  \/ CallAirDensity
  \/ CallLCL
  \/ CallGammaMoist
  \/ CallAdiabaticExpansion
  \/ CallAdiabaticCooling
  \/ CallPressureFromFL
  \/ CallFLFromPressure
  \/ TestCxxMain
  \/ TestCMain

Spec == Init /\ [][Next]_vars

(***************************************************************************)
(* A caller that passes anything.  index.ts checks no argument, and        *)
(* TypeScript's `number` admits every double: such a caller makes one call *)
(* of an exported function on arguments drawn from Numbers, the non-finite *)
(* values and the edges of the formulas' domains among them.               *)
(***************************************************************************)

Exported ==
  {"altitudeFromStandardPressure", "pressureFromStandardAltitude",
   "altitudeFromPressure", "pressureFromAltitude",
   "waterVaporSaturationPressure", "relativeHumidity", "dewPoint",
   "relativeHumidityFromDewPoint", "mixingRatio",
   "specificHumidityFromMixingRatio", "specificHumidity", "airDensity",
   "LCL", "gammaMoist", "adiabaticExpansion", "adiabaticCooling",
   "pressureFromFL", "FLFromPressure"}

\* The number of parameters of an exported function.
Arity(fn) ==
  CASE fn \in {"waterVaporSaturationPressure", "mixingRatio",
               "specificHumidityFromMixingRatio", "pressureFromFL",
               "FLFromPressure"} -> 1
    [] fn \in {"altitudeFromStandardPressure", "pressureFromStandardAltitude",
               "dewPoint", "relativeHumidityFromDewPoint", "LCL",
               "gammaMoist"} -> 2
    [] OTHER -> 3

\* The i-th argument of a call, undefined when the call omits it.
Arg(args, i) == IF i <= Len(args) THEN args[i] ELSE Undefined

\* The call fn(...args).
Apply(fn, args) ==
  LET a == Arg(args, 1)
      b == Arg(args, 2)
      c == Arg(args, 3)
  IN  CASE fn = "altitudeFromStandardPressure"
             -> altitudeFromStandardPressure(a, b)
        [] fn = "pressureFromStandardAltitude"
             -> pressureFromStandardAltitude(a, b)
        [] fn = "altitudeFromPressure" -> altitudeFromPressure(a, b, c)
        [] fn = "pressureFromAltitude" -> pressureFromAltitude(a, b, c)
        [] fn = "waterVaporSaturationPressure"
             -> waterVaporSaturationPressure(a)
        [] fn = "relativeHumidity" -> relativeHumidity(a, b, c)
        [] fn = "dewPoint" -> dewPoint(a, b)
        [] fn = "relativeHumidityFromDewPoint"
             -> relativeHumidityFromDewPoint(a, b)
        [] fn = "mixingRatio" -> mixingRatio(a)
        [] fn = "specificHumidityFromMixingRatio"
             -> specificHumidityFromMixingRatio(a)
        [] fn = "specificHumidity" -> specificHumidity(a, b, c)
        [] fn = "airDensity" -> airDensity(a, b, c)
        [] fn = "LCL" -> LCL(a, b)
        [] fn = "gammaMoist" -> gammaMoist(a, b)
        [] fn = "adiabaticExpansion" -> adiabaticExpansion(a, b, c)
        [] fn = "adiabaticCooling" -> adiabaticCooling(a, b, c)
        [] fn = "pressureFromFL" -> pressureFromFL(a)
        [] fn = "FLFromPressure" -> FLFromPressure(a)

Numbers ==
  {NaN, Inf(1), Inf(-1), Zero, IntNum(-1), IntNum(1000), K, IntNum(50000)}

Arguments(fn) == [1..Arity(fn) -> Numbers]

AnyInit ==
  /\ pressureMSL = Undefined
  /\ temperature = Undefined
  /\ last = NoCall
  /\ prev = NoCall
  /\ depth = 0
  /\ test = NoTest
  /\ frames = NoFrames
  /\ table = ConstantTable
  /\ Idle

CallAny ==
  /\ depth = 0
  /\ \E fn \in Exported :
       \E args \in Arguments(fn) : Call(fn, args, Apply(fn, args))

AnySpec == AnyInit /\ [][CallAny]_vars

(***************************************************************************)
(* Calling contexts.  A call is entered with its arguments in an           *)
(* activation record of its own, its defaulted parameters are assigned     *)
(* (`pressure0: number = P0`, and `pressure0 = pressure0 ?? P0` in the     *)
(* older releases), and it returns the value of its expression.  The       *)
(* steps of different contexts interleave in any order.                    *)
(***************************************************************************)

\* The constant a parameter defaults to, "none" for a required parameter.
DefaultName(fn, i) ==
  CASE i = 1 /\ fn = "waterVaporSaturationPressure" -> "T0"
    [] i = 2 /\ fn \in {"altitudeFromStandardPressure",
                        "pressureFromStandardAltitude", "altitudeFromPressure",
                        "pressureFromAltitude", "relativeHumidity",
                        "specificHumidity", "airDensity", "gammaMoist"} -> "P0"
    [] i = 2 /\ fn \in {"dewPoint", "relativeHumidityFromDewPoint"} -> "T0"
    [] i = 3 /\ fn \in {"altitudeFromPressure", "pressureFromAltitude",
                        "relativeHumidity", "specificHumidity",
                        "airDensity"} -> "T0"
    [] i = 3 /\ fn \in {"adiabaticExpansion", "adiabaticCooling"} -> "P0"
    [] OTHER -> "none"

\* The parameters of a call after the defaults: an undefined argument of a
\* defaulted parameter takes the constant's value.
WithDefaults(fn, args, constants) ==
  [i \in 1..Arity(fn) |->
     IF Arg(args, i) = Undefined /\ DefaultName(fn, i) # "none"
     THEN constants[DefaultName(fn, i)]
     ELSE Arg(args, i)]

\* The calls the contexts make: those of the example programs.
Calls ==
  {<<"altitudeFromStandardPressure", <<IntNum(821), Undefined>>>>,
   <<"altitudeFromPressure", <<IntNum(821), IntNum(1017), IntNum(-20)>>>>,
   <<"altitudeFromPressure", <<IntNum(821), Undefined, Undefined>>>>,
   <<"airDensity", <<IntNum(75), IntNum(1017), Undefined>>>>}

\* The context is inside a call.
Active(c) == frames[c].pc \in {"entered", "bound"}

\* A context enters a call: its arguments go to a fresh activation record.
\* (overlapped records that another call was in progress during this one.)
Enter(c, fn, args) ==
  /\ frames[c].pc = "idle"
  /\ frames' =
       [d \in Contexts |->
          IF d = c
          THEN [pc |-> "entered", fn |-> fn, args |-> args, params |-> args,
                ret |-> Undefined,
                overlapped |-> \E e \in Contexts \ {c} : Active(e)]
          ELSE IF Active(d) THEN [frames[d] EXCEPT !.overlapped = TRUE]
          ELSE frames[d]]
  /\ UNCHANGED <<pressureMSL, temperature, last, prev, depth, test, table, build>>

\* A slip: the assignment names the constant, `P0 = pressure0 ?? P0`.
AssignParams_global(c, ps) ==
  /\ frames' = [frames EXCEPT ![c].pc = "bound"]
  /\ table' =
       [n \in DOMAIN table |->
          IF \E i \in DOMAIN ps : DefaultName(frames[c].fn, i) = n
          THEN ps[CHOOSE i \in DOMAIN ps : DefaultName(frames[c].fn, i) = n]
          ELSE table[n]]

\* `pressure0 = pressure0 ?? P0`: the assignment is to the call's own
\* parameter.
AssignParams(c, ps) ==
  /\ frames' = [frames EXCEPT ![c].pc = "bound", ![c].params = ps]
  /\ table' = table

\* The defaulted parameters of the call are assigned.
Bind(c) ==
  /\ frames[c].pc = "entered"
  /\ AssignParams(c, WithDefaults(frames[c].fn, frames[c].params, table))
  /\ UNCHANGED <<pressureMSL, temperature, last, prev, depth, test, build>>

\* A slip: one static record for the parameters of every call in progress.
Params_shared(c) ==
  frames[CHOOSE d \in Contexts : frames[d].pc = "bound"].params

\* The parameters the body of the call reads: those of its own record.
Params(c) == frames[c].params

\* The call evaluates its expression and returns.
Return(c) ==
  /\ frames[c].pc = "bound"
  /\ frames' = [frames EXCEPT ![c].pc = "returned",
                              ![c].ret = Apply(frames[c].fn, Params(c))]
  /\ UNCHANGED <<pressureMSL, temperature, last, prev, depth, test, table, build>>

\* The caller has the result; the record is gone.
Leave(c) ==
  /\ frames[c].pc = "returned"
  /\ frames' = [frames EXCEPT ![c] = NoFrame]
  /\ UNCHANGED <<pressureMSL, temperature, last, prev, depth, test, table, build>>

FrameNext ==
  \E c \in Contexts :
    \/ \E call \in Calls : Enter(c, call[1], call[2])
    \/ Bind(c)
    \/ Return(c)
    \/ Leave(c)

FrameSpec == AnyInit /\ [][FrameNext]_vars

(***************************************************************************)
(* A caller that evaluates one function at several points: a sounding, a   *)
(* plot, and the unit test, whose describe blocks call a function on each  *)
(* row of a reference table.                                               *)
(***************************************************************************)

SweepPressures ==
  {One, IntNum(200), Num(1, 898, 7460, 0, 0), IntNum(1000),
   Num(1, 1000, 10, 0, 0), P0, IntNum(1050)}

SweepTemperatures ==
  {IntNum(-40), IntNum(-20), Zero, T0, Num(1, 15, 10, 0, 0), IntNum(35),
   IntNum(50)}

\* The next point of a sweep of fn: the first call, or one more of the same.
Sweeping(fn) ==
  /\ test = NoTest
  /\ depth < MaxChain
  /\ depth > 0 => last.fn = fn

SweepAltitudeFromStandardPressure ==
  /\ Sweeping("altitudeFromStandardPressure")
  /\ \E pressure \in SweepPressures :
       Call("altitudeFromStandardPressure", <<pressure, pressureMSL>>,
            altitudeFromStandardPressure(pressure, pressureMSL))

SweepWaterVaporSaturationPressure ==
  /\ Sweeping("waterVaporSaturationPressure")
  /\ \E temp \in SweepTemperatures :
       Call("waterVaporSaturationPressure", <<temp>>,
            waterVaporSaturationPressure(temp))

\* The reference tables of the unit test.
standardAtmosphere ==
  {[alt |-> Zero, pres |-> Num(1, 1013, 2500, 0, 0)],
   [alt |-> IntNum(1000), pres |-> Num(1, 898, 7460, 0, 0)],
   [alt |-> IntNum(2000), pres |-> Num(1, 794, 9520, 0, 0)],
   [alt |-> IntNum(3000), pres |-> Num(1, 701, 850, 0, 0)],
   [alt |-> IntNum(4000), pres |-> Num(1, 616, 4020, 0, 0)]}

realAtmosphere ==
  {[alt |-> Zero, pres |-> IntNum(1000), pres0 |-> IntNum(1000),
    t |-> IntNum(20)],
   [alt |-> IntNum(1061), pres |-> Num(1, 898, 7460, 0, 0),
    pres0 |-> IntNum(1020), t |-> IntNum(10)],
   [alt |-> IntNum(1958), pres |-> Num(1, 794, 9520, 0, 0),
    pres0 |-> IntNum(1010), t |-> Zero],
   [alt |-> IntNum(3022), pres |-> Num(1, 701, 850, 0, 0),
    pres0 |-> IntNum(1010), t |-> Zero],
   [alt |-> IntNum(4182), pres |-> Num(1, 616, 4020, 0, 0),
    pres0 |-> IntNum(1015), t |-> Zero]}

dryAir ==
  {[t |-> IntNum(35), rho |-> Num(1, 1, 1455, 0, 0)],
   [t |-> IntNum(30), rho |-> Num(1, 1, 1644, 0, 0)],
   [t |-> IntNum(25), rho |-> Num(1, 1, 1839, 0, 0)],
   [t |-> IntNum(5), rho |-> Num(1, 1, 2690, 0, 0)],
   [t |-> IntNum(-15), rho |-> Num(1, 1, 3673, 0, 0)]}

humidAir ==
  {[t |-> Zero, p |-> P0, h |-> IntNum(80), rho |-> Num(1, 1, 2900, 0, 0)],
   [t |-> IntNum(10), p |-> P0, h |-> IntNum(60),
    rho |-> Num(1, 1, 2430, 0, 0)],
   [t |-> IntNum(20), p |-> P0, h |-> IntNum(80),
    rho |-> Num(1, 1, 1980, 0, 0)],
   [t |-> IntNum(-10), p |-> P0, h |-> IntNum(80),
    rho |-> Num(1, 1, 3400, 0, 0)],
   [t |-> IntNum(-10), p |-> IntNum(800), h |-> IntNum(80),
    rho |-> Num(1, 1, 580, 0, 0)]}

\* chai's assert.closeTo: |actual - expected| <= delta
closeTo(actual, expected, delta) == Le(Abs(Sub(actual, expected)), delta)

\* describe('altitudeFromStandardPressure'): pressure0 omitted
DescribeAltitudeFromStandardPressure ==
  /\ Sweeping("altitudeFromStandardPressure")
  /\ \E lvl \in standardAtmosphere :
       Call("altitudeFromStandardPressure", <<lvl.pres, Undefined>>,
            altitudeFromStandardPressure(lvl.pres, Undefined))

\* describe('pressureFromStandardAltitude'): pressure0 omitted
DescribePressureFromStandardAltitude ==
  /\ Sweeping("pressureFromStandardAltitude")
  /\ \E lvl \in standardAtmosphere :
       Call("pressureFromStandardAltitude", <<lvl.alt, Undefined>>,
            pressureFromStandardAltitude(lvl.alt, Undefined))

\* describe('altitudeFromPressure')
DescribeAltitudeFromPressure ==
  /\ Sweeping("altitudeFromPressure")
  /\ \E lvl \in realAtmosphere :
       Call("altitudeFromPressure", <<lvl.pres, lvl.pres0, lvl.t>>,
            altitudeFromPressure(lvl.pres, lvl.pres0, lvl.t))

\* describe('pressureFromAltitude')
DescribePressureFromAltitude ==
  /\ Sweeping("pressureFromAltitude")
  /\ \E lvl \in realAtmosphere :
       Call("pressureFromAltitude", <<lvl.alt, lvl.pres0, lvl.t>>,
            pressureFromAltitude(lvl.alt, lvl.pres0, lvl.t))

\* describe('airDensity'): the dry rows at P0, then the humid rows
DescribeAirDensity ==
  /\ Sweeping("airDensity")
  /\ \/ \E lvl \in dryAir :
          Call("airDensity", <<Zero, P0, lvl.t>>, airDensity(Zero, P0, lvl.t))
     \/ \E lvl \in humidAir :
          Call("airDensity", <<lvl.h, lvl.p, lvl.t>>,
               airDensity(lvl.h, lvl.p, lvl.t))

\* describe('LCL'): the rows (t, td) of the table LCL
DescribeLCL ==
  /\ Sweeping("LCL")
  /\ \E lvl \in {<<IntNum(25), IntNum(4)>>, <<IntNum(-6), IntNum(-10)>>} :
       Call("LCL", lvl, LCL(lvl[1], lvl[2]))

\* The cloud base of the day for several dew points, saturated air included.
SweepLCL ==
  /\ Sweeping("LCL")
  /\ temperature # Undefined
  /\ \E td \in DewPoints \cup {temperature} :
       Call("LCL", <<temperature, td>>, LCL(temperature, td))

\* describe('gammaMoist'): the rows (t, p) of the table MALR
DescribeGammaMoist ==
  /\ Sweeping("gammaMoist")
  /\ \E lvl \in {<<IntNum(-40), IntNum(1000)>>, <<IntNum(-20), IntNum(1000)>>,
                  <<IntNum(20), IntNum(1000)>>, <<IntNum(40), IntNum(1000)>>,
                  <<IntNum(-20), IntNum(600)>>} :
       Call("gammaMoist", lvl, gammaMoist(lvl[1], lvl[2]))

\* A parcel followed from one pressure level to the next: the first call
\* starts at the pressure of the day, every later call starts where the
\* previous one ended, at the temperature it returned.
SweepAdiabaticCooling ==
  /\ Sweeping("adiabaticCooling")
  /\ \E pressure \in Pressures \cup {Default(pressureMSL, P0)} :
       IF depth = 0
       THEN \E temp0 \in {temperature, IntNum(-300)} \ {Undefined} :
              Call("adiabaticCooling", <<temp0, pressure, pressureMSL>>,
                   adiabaticCooling(temp0, pressure, pressureMSL))
       ELSE Call("adiabaticCooling", <<last.ret, pressure, last.args[2]>>,
                 adiabaticCooling(last.ret, pressure, last.args[2]))

\* The thickness of one layer after another at the temperature of the day:
\* the first layer starts at the pressure of the day, every later one at the
\* pressure where the previous layer ended.
LayerAltitudeFromPressure ==
  /\ Sweeping("altitudeFromPressure")
  /\ \E pressure \in Pressures \cup {Default(pressureMSL, P0)} :
       LET pressure0 == IF depth = 0 THEN pressureMSL ELSE last.args[1]
       IN  Call("altitudeFromPressure", <<pressure, pressure0, temperature>>,
                altitudeFromPressure(pressure, pressure0, temperature))

\* The pressure at the top of one layer after another: the first layer
\* starts at the pressure of the day, every later one at the pressure the
\* previous call returned.
LayerPressureFromAltitude ==
  /\ Sweeping("pressureFromAltitude")
  /\ \E height \in Altitudes \cup {IntNum(-250)} :
       LET pressure0 == IF depth = 0 THEN pressureMSL ELSE last.ret
       IN  Call("pressureFromAltitude", <<height, pressure0, temperature>>,
                pressureFromAltitude(height, pressure0, temperature))

\* The density of one air mass for several humidities and pressures: after
\* the first call every call keeps the temperature and changes the relative
\* humidity or the pressure. The temperatures include -237.3, where the
\* denominator temp + 237.3 of waterVaporSaturationPressure is 0, and -238.
SweepAirDensity ==
  /\ Sweeping("airDensity")
  /\ \E rh \in {Zero, IntNum(35), IntNum(100)},
        pressure \in {pressureMSL, IntNum(200)},
        temp \in {temperature, IntNum(-100), Num(-1, 237, 3000, 0, 0),
                  IntNum(-238)} :
       /\ depth > 0
          => /\ temp = last.args[3]
             /\ rh = last.args[1] \/ pressure = last.args[2]
       /\ Call("airDensity", <<rh, pressure, temp>>,
               airDensity(rh, pressure, temp))

SweepNext ==
  \/ SweepAltitudeFromStandardPressure
  \/ SweepWaterVaporSaturationPressure
  \/ DescribeAltitudeFromStandardPressure
  \/ DescribePressureFromStandardAltitude
  \/ DescribeAltitudeFromPressure
  \/ DescribePressureFromAltitude
  \/ DescribeAirDensity
  \/ DescribeLCL
  \/ SweepLCL
  \/ DescribeGammaMoist

SweepSpec == Init /\ [][SweepNext]_vars

\* A caller that follows one air mass: a parcel from level to level, the
\* atmosphere layer by layer, the density for several humidities and pressures.
PathNext ==
  \/ SweepAdiabaticCooling
  \/ LayerAltitudeFromPressure
  \/ LayerPressureFromAltitude
  \/ SweepAirDensity

PathSpec == Init /\ [][PathNext]_vars

(***************************************************************************)
(* The header generator, gen_cpp.  It writes a prologue when it is loaded, *)
(* the rewriting of every chunk its input stream emits, and an epilogue    *)
(* when the stream ends.  A text is a sequence of pieces whose             *)
(* concatenation it is: a chunk is written character by character, the two *)
(* template literals line by line.                                         *)
(***************************************************************************)

\* The most chunks the input stream delivers a text in.
MaxChunks == 2

\* [a-zA-Z0-9]
Alnum ==
  {"a", "b", "c", "d", "e", "f", "g", "h", "i", "j", "k", "l", "m", "n",
   "o", "p", "q", "r", "s", "t", "u", "v", "w", "x", "y", "z", "A", "B",
   "C", "D", "E", "F", "G", "H", "I", "J", "K", "L", "M", "N", "O", "P",
   "Q", "R", "S", "T", "U", "V", "W", "X", "Y", "Z", "0", "1", "2", "3",
   "4", "5", "6", "7", "8", "9"}

\* [A-Z0-9]
UpperOrDigit ==
  {"A", "B", "C", "D", "E", "F", "G", "H", "I", "J", "K", "L", "M", "N",
   "O", "P", "Q", "R", "S", "T", "U", "V", "W", "X", "Y", "Z", "0", "1",
   "2", "3", "4", "5", "6", "7", "8", "9"}

\* \s
Space == {" ", "\t", "\n", "\r", "\f"}

\* The line terminators, which "." does not match.
LineTerminator == {"\n", "\r"}

\* A literal of a regular expression: one element per character.
Lit(text) ==
  [i \in 1..Len(text) |->
     [of |-> {text[i]}, neg |-> FALSE, plus |-> FALSE, group |-> 0]]

\* A character class repeated with +, as capture group `group` (0: none).
Many(class, group) ==
  <<[of |-> class, neg |-> FALSE, plus |-> TRUE, group |-> group]>>

\* .+
AnyMany ==
  <<[of |-> LineTerminator, neg |-> TRUE, plus |-> TRUE, group |-> 0]>>

\* The element of a regular expression matches the character.
Accepts(el, char) == (char \in el.of) # el.neg

RECURSIVE Run(_, _, _)
\* The length of the longest run of characters the element matches in text
\* from position i.
Run(el, text, i) ==
  IF i <= Len(text) /\ Accepts(el, text[i]) THEN 1 + Run(el, text, i + 1)
  ELSE 0

RECURSIVE MatchAt(_, _, _, _)
RECURSIVE Backtrack(_, _, _, _, _)
\* The match of the elements k.. of a regular expression at position i of
\* text: the position where each element starts, then the position after the
\* match; <<>> when there is none.
MatchAt(regexp, k, text, i) ==
  IF k > Len(regexp) THEN <<i>>
  ELSE IF regexp[k].plus
  THEN Backtrack(regexp, k, text, i, Run(regexp[k], text, i))
  ELSE IF i <= Len(text) /\ Accepts(regexp[k], text[i])
  THEN LET rest == MatchAt(regexp, k + 1, text, i + 1)
       IN  IF rest = <<>> THEN <<>> ELSE <<i>> \o rest
  ELSE <<>>

\* A repeated element is greedy: it takes n characters, the longest run
\* first, and gives one back for as long as the rest does not match.
Backtrack(regexp, k, text, i, n) ==
  IF n = 0 THEN <<>>
  ELSE LET rest == MatchAt(regexp, k + 1, text, i + n)
       IN  IF rest # <<>> THEN <<i>> \o rest
           ELSE Backtrack(regexp, k, text, i, n - 1)

RECURSIVE Flatten(_)
\* The concatenation of a sequence of texts.
Flatten(texts) ==
  IF texts = <<>> THEN <<>> ELSE Head(texts) \o Flatten(Tail(texts))

\* The replacement string for the match m: every piece is a literal followed
\* by the text of a capture group ($1, $2; 0: none).
Expand(newSubstr, regexp, text, m) ==
  Flatten([j \in 1..Len(newSubstr) |->
             newSubstr[j].lit
             \o Flatten([k \in 1..Len(regexp) |->
                           IF /\ newSubstr[j].group # 0
                              /\ regexp[k].group = newSubstr[j].group
                           THEN SubSeq(text, m[k], m[k + 1] - 1)
                           ELSE <<>>])])

RECURSIVE replace(_, _, _, _)
\* String.prototype.replace with a global regular expression, from position
\* i on: every match, the leftmost first, is replaced, and the search goes on
\* after the match.
replace(text, regexp, newSubstr, i) ==
  LET found == {j \in i..Len(text) : MatchAt(regexp, 1, text, j) # <<>>}
  IN  IF found = {} THEN SubSeq(text, i, Len(text))
      ELSE LET j == CHOOSE j \in found : \A h \in found : j <= h
               m == MatchAt(regexp, 1, text, j)
           IN  (SubSeq(text, i, j - 1) \o Expand(newSubstr, regexp, text, m))
               \o replace(text, regexp, newSubstr, m[Len(m)])

\* The eight rewritings of the 'data' handler, in the order it applies them.
Rewritings ==
  << \* /([a-zA-Z0-9]+):\s+number\s+=\s+([A-Z0-9]+)/g,
     \* 'double $1 VELITHERM_DEFAULT($2)'
     [regexp |-> Many(Alnum, 1) \o Lit(<<":">>) \o Many(Space, 0)
                 \o Lit(<<"n", "u", "m", "b", "e", "r">>) \o Many(Space, 0)
                 \o Lit(<<"=">>) \o Many(Space, 0) \o Many(UpperOrDigit, 2),
      newSubstr |->
        <<[lit |-> <<"d", "o", "u", "b", "l", "e", " ">>, group |-> 1],
          [lit |-> <<" ", "V", "E", "L", "I", "T", "H", "E", "R", "M", "_",
                   "D", "E", "F", "A", "U", "L", "T", "(">>,
           group |-> 2],
          [lit |-> <<")">>, group |-> 0]>>],
     \* /export\s+function/g, 'static inline double'
     [regexp |-> Lit(<<"e", "x", "p", "o", "r", "t">>) \o Many(Space, 0)
                 \o Lit(<<"f", "u", "n", "c", "t", "i", "o", "n">>),
      newSubstr |->
        <<[lit |-> <<"s", "t", "a", "t", "i", "c", " ", "i", "n", "l", "i",
                   "n", "e", " ", "d", "o", "u", "b", "l", "e">>,
           group |-> 0]>>],
     \* /([a-zA-Z0-9]+):\s+number/g, 'double $1'
     [regexp |-> Many(Alnum, 1) \o Lit(<<":">>) \o Many(Space, 0)
                 \o Lit(<<"n", "u", "m", "b", "e", "r">>),
      newSubstr |-> <<[lit |-> <<"d", "o", "u", "b", "l", "e", " ">>, group |-> 1]>>],
     \* /\):\s+number/g, ')'
     [regexp |-> Lit(<<")", ":">>) \o Many(Space, 0)
                 \o Lit(<<"n", "u", "m", "b", "e", "r">>),
      newSubstr |-> <<[lit |-> <<")">>, group |-> 0]>>],
     \* /export\s+const/g, 'const'
     [regexp |-> Lit(<<"e", "x", "p", "o", "r", "t">>) \o Many(Space, 0)
                 \o Lit(<<"c", "o", "n", "s", "t">>),
      newSubstr |-> <<[lit |-> <<"c", "o", "n", "s", "t">>, group |-> 0]>>],
     \* /.+velitherm\s+=.+/g, ''
     [regexp |-> AnyMany \o Lit(<<"v", "e", "l", "i", "t", "h", "e", "r", "m">>)
                 \o Many(Space, 0) \o Lit(<<"=">>) \o AnyMany,
      newSubstr |-> <<>>],
     \* /const\s+([a-zA-Z0-9]+)/g, 'const double $1'
     [regexp |-> Lit(<<"c", "o", "n", "s", "t">>) \o Many(Space, 0) \o Many(Alnum, 1),
      newSubstr |->
        <<[lit |-> <<"c", "o", "n", "s", "t", " ", "d", "o", "u", "b", "l",
                   "e", " ">>,
           group |-> 1]>>],
     \* /Math\./g, ''
     [regexp |-> Lit(<<"M", "a", "t", "h", ".">>), newSubstr |-> <<>>] >>

RECURSIVE Rewrite(_, _)
\* The text after the first n rewritings.
Rewrite(text, n) ==
  IF n = 0 THEN text
  ELSE replace(Rewrite(text, n - 1), Rewritings[n].regexp,
               Rewritings[n].newSubstr, 1)

\* What the 'data' handler writes for a chunk.
Convert(chunk) == Rewrite(chunk, Len(Rewritings))

\* The template literal written when the program is loaded.
Prologue ==
  <<"\n", "#include <math.h>\n", "\n", "#ifdef __cplusplus\n",
    "namespace velitherm {\n", "#define VELITHERM_DEFAULT(x) = x\n",
    "#else\n", "#define VELITHERM_DEFAULT(x)\n", "#endif\n", "\n">>

\* The template literal written when the input ends.
Epilogue ==
  <<"\n", "\n", "#ifdef __cplusplus\n", "}\n", "#endif\n", "\n">>

\* A slip: the text put before everything written before.
write_first(out, text) == <<text>> \o out

\* process.stdout.write: the text goes after everything written before.
write(out, text) == Append(out, text)

\* Source texts: a function with a defaulted parameter, an exported
\* constant that calls Math, and lines with a plain parameter and an
\* assignment to velitherm.
Texts ==
  { \* export function f(h: number = P0): number
    <<"e", "x", "p", "o", "r", "t", " ", "f", "u", "n", "c", "t", "i", "o",
      "n", " ", "f", "(", "h", ":", " ", "n", "u", "m", "b", "e", "r", " ",
      "=", " ", "P", "0", ")", ":", " ", "n", "u", "m", "b", "e", "r">>,
    \* export const G = Math.exp(1);
    <<"e", "x", "p", "o", "r", "t", " ", "c", "o", "n", "s", "t", " ", "G",
      " ", "=", " ", "M", "a", "t", "h", ".", "e", "x", "p", "(", "1", ")",
      ";">>,
    \* (t: number)
    \* const velitherm = {};
    \* x
    <<"(", "t", ":", " ", "n", "u", "m", "b", "e", "r", ")", "\n", "c",
      "o", "n", "s", "t", " ", "v", "e", "l", "i", "t", "h", "e", "r", "m",
      " ", "=", " ", "{", "}", ";", "\n", "x">> }

RECURSIVE Chunkings(_, _)
\* The ways a stream delivers a text in at most n chunks, none of them empty.
Chunkings(text, n) ==
  IF text = <<>> THEN {<<>>}
  ELSE {<<text>>}
       \cup IF n <= 1 THEN {}
            ELSE UNION {{<<SubSeq(text, 1, k)>> \o rest :
                           rest \in Chunkings(SubSeq(text, k + 1, Len(text)),
                                              n - 1)} :
                          k \in 1..(Len(text) - 1)}

\* The generator is started on an input, empty or one of the texts.
GenInit ==
  /\ pressureMSL = Undefined
  /\ temperature = Undefined
  /\ last = NoCall
  /\ prev = NoCall
  /\ depth = 0
  /\ test = NoTest
  /\ frames = NoFrames
  /\ table = ConstantTable
  /\ \E text \in Texts \cup {<<>>} :
       \E chunks \in Chunkings(text, MaxChunks) :
         stdin = [chunks |-> chunks, read |-> 0]
  /\ stdout = <<>>
  /\ pc = "load"

\* The body of the module: the prologue is written and the two handlers are
\* registered before any event of the stream is dispatched.
Main ==
  /\ pc = "load"
  /\ stdout' = write(stdout, Prologue)
  /\ pc' = "listening"
  /\ UNCHANGED <<pressureMSL, temperature, last, prev, depth, test, frames,
                 table, stdin>>

\* process.stdin.on('data', ...): the next chunk arrives.
OnData ==
  /\ pc = "listening"
  /\ stdin.read < Len(stdin.chunks)
  /\ stdout' = write(stdout, Convert(stdin.chunks[stdin.read + 1]))
  /\ stdin' = [stdin EXCEPT !.read = @ + 1]
  /\ UNCHANGED <<pressureMSL, temperature, last, prev, depth, test, frames,
                 table, pc>>

\* process.stdin.on('end', ...): emitted once, after the last chunk.
OnEnd ==
  /\ pc = "listening"
  /\ stdin.read = Len(stdin.chunks)
  /\ stdout' = write(stdout, Epilogue)
  /\ pc' = "ended"
  /\ UNCHANGED <<pressureMSL, temperature, last, prev, depth, test, frames,
                 table, stdin>>

GenNext ==
  \/ Main
  \/ OnData
  \/ OnEnd

GenSpec == GenInit /\ [][GenNext]_vars

(***************************************************************************)
(* The properties.  An equality of real numbers is checked to Eps, taken   *)
(* relative to the value above 1: well above the rounding of the           *)
(* arithmetic (1e-12 per operation) and far below every tolerance the      *)
(* tests use.                                                              *)
(***************************************************************************)

\* 1e-6
Eps == Num(1, 0, 0, 100, 0)

Close(x, y, eps) ==
  Le(Abs(Sub(x, y)), IF Lt(One, Abs(y)) THEN Mul(eps, Abs(y)) ELSE eps)

Positive(x) == IsFinite(x) /\ Lt(Zero, x)

\* The last call is g, made on the result of a call of f.
Chained(f, g) == prev.fn = f /\ last.fn = g

\* C1: the hypsometric round trip. When pressureFromAltitude is called on
\* the altitude that altitudeFromPressure returned for a pressure P > 0, with
\* the same pressure0 > 0 and the same temp above absolute zero, it returns P.
C1_HypsometricRoundTrip ==
  (/\ Chained("altitudeFromPressure", "pressureFromAltitude")
   /\ Positive(prev.args[1])
   /\ Positive(Default(pressureMSL, P0))
   /\ Positive(Sub(Default(temperature, T0), K)))
  => Close(last.ret, prev.args[1], Eps)

C1_Witness ==
  /\ Chained("altitudeFromPressure", "pressureFromAltitude")
  /\ prev.args = <<Num(1, 898, 7460, 0, 0), IntNum(1017), IntNum(40)>>
  /\ last.args = <<prev.ret, IntNum(1017), IntNum(40)>>
  /\ Lt(IntNum(1000), prev.ret)
  /\ Close(last.ret, Num(1, 898, 7460, 0, 0), Eps)

\* C2: altitudeFromPressure and pressureFromAltitude do not round. Called on
\* decimal inputs with pressure # pressure0 (height # 0), where the exact
\* value is irrational, the result is finite and not an integer.
C2_Unrounded ==
  /\ (/\ last.fn = "altitudeFromPressure"
      /\ depth = 1
      /\ last.args[1] # Default(pressureMSL, P0))
     => (IsFinite(last.ret) /\ ~IsInteger(last.ret))
  /\ (/\ last.fn = "pressureFromAltitude"
      /\ depth = 1
      /\ last.args[1] # Zero)
     => (IsFinite(last.ret) /\ ~IsInteger(last.ret))

C2_Witness ==
  /\ last.fn = "altitudeFromPressure"
  /\ last.args = <<IntNum(821), IntNum(1017), Undefined>>
  /\ Lt(IntNum(1807), last.ret)
  /\ Lt(last.ret, IntNum(1808))

Between(lo, x, hi) == IsFinite(x) /\ Le(lo, x) /\ Le(x, hi)

\* C4: the standard-atmosphere round trip. When pressureFromStandardAltitude
\* is called on the altitude that altitudeFromStandardPressure returned for a
\* pressure P in [200, 1050] hPa, with the same pressure0 > 0 (P0 or a
\* pressure of the day; the altitude is then below 44330 m), it returns P:
\* within 1 hPa, and indeed within Eps since the two are algebraic inverses.
C4_StandardRoundTrip ==
  (/\ Chained("altitudeFromStandardPressure", "pressureFromStandardAltitude")
   /\ Between(IntNum(200), prev.args[1], IntNum(1050))
   /\ Positive(Default(pressureMSL, P0)))
  => /\ Lt(prev.ret, IntNum(44330))
     /\ Lt(Abs(Sub(last.ret, prev.args[1])), One)
     /\ Close(last.ret, prev.args[1], Eps)

C4_Witness ==
  /\ Chained("altitudeFromStandardPressure", "pressureFromStandardAltitude")
  /\ prev.args = <<IntNum(200), Undefined>>
  /\ Lt(IntNum(11000), prev.ret)
  /\ last.args = <<prev.ret, Undefined>>
  /\ Close(last.ret, IntNum(200), Eps)

\* C5: mixingRatio and specificHumidityFromMixingRatio are inverses.
\* specificHumidityFromMixingRatio(mixingRatio(q)) = q for every finite q
\* other than 1000, [0, 50] g/kg included, and
\* mixingRatio(specificHumidityFromMixingRatio(w)) = w for every finite w >= 0.
C5_MixingRatioInverse ==
  /\ (/\ Chained("mixingRatio", "specificHumidityFromMixingRatio")
      /\ IsFinite(prev.args[1])
      /\ prev.args[1] # IntNum(1000))
     => Close(last.ret, prev.args[1], Eps)
  /\ (/\ Chained("specificHumidityFromMixingRatio", "mixingRatio")
      /\ IsFinite(prev.args[1])
      /\ Le(Zero, prev.args[1]))
     => Close(last.ret, prev.args[1], Eps)

C5_Witness ==
  /\ Chained("mixingRatio", "specificHumidityFromMixingRatio")
  /\ prev.args = <<IntNum(50)>>
  /\ Lt(IntNum(52), prev.ret)
  /\ last.args = <<prev.ret>>
  /\ Close(last.ret, IntNum(50), Eps)

\* C6: relativeHumidityFromDewPoint inverts dewPoint. For RH in [10, 100] and
\* T in [-20, 40] deg C, relativeHumidityFromDewPoint(dewPoint(RH, T), T) is
\* within 1 percentage point of RH.
C6_DewPointInverse ==
  (/\ Chained("dewPoint", "relativeHumidityFromDewPoint")
   /\ Between(IntNum(10), prev.args[1], IntNum(100))
   /\ Between(IntNum(-20), Default(temperature, T0), IntNum(40)))
  => Lt(Abs(Sub(last.ret, prev.args[1])), One)

C6_Witness ==
  /\ Chained("dewPoint", "relativeHumidityFromDewPoint")
  /\ prev.args = <<IntNum(10), IntNum(-20)>>
  /\ Lt(prev.ret, IntNum(-40))
  /\ last.args = <<prev.ret, IntNum(-20)>>
  /\ Lt(Abs(Sub(last.ret, IntNum(10))), One)

\* C7: relativeHumidity (coefficient 6.22) and specificHumidity (coefficient
\* 0.622, with the factors 1000 and 1 / 100) are inverses. For finite RH and
\* q, pressure p > 0 and temp T, relativeHumidity(specificHumidity(RH, p, T),
\* p, T) = RH and specificHumidity(relativeHumidity(q, p, T), p, T) = q.
C7_HumidityDirections ==
  /\ (/\ Chained("specificHumidity", "relativeHumidity")
      /\ IsFinite(prev.args[1])
      /\ Positive(Default(pressureMSL, P0)))
     => Close(last.ret, prev.args[1], Eps)
  /\ (/\ Chained("relativeHumidity", "specificHumidity")
      /\ IsFinite(prev.args[1])
      /\ Positive(Default(pressureMSL, P0)))
     => Close(last.ret, prev.args[1], Eps)

C7_Witness ==
  /\ Chained("specificHumidity", "relativeHumidity")
  /\ prev.args = <<IntNum(60), IntNum(1000), IntNum(40)>>
  /\ Lt(IntNum(20), prev.ret)
  /\ last.args = <<prev.ret, IntNum(1000), IntNum(40)>>
  /\ Close(last.ret, IntNum(60), Eps)

\* C8: the dry adiabatic cross-check. Every test program computes
\* (T0 - adiabaticCooling(T0, pressureFromStandardAltitude(100),
\* pressureFromStandardAltitude(0))) / 100 and compares it with the constant
\* gamma, not with the computed value itself, and the two differ by less
\* than 1e-5.
C8_DryAdiabaticCrossCheck ==
  test # NoTest
  => /\ test.against = gamma
     /\ Lt(Abs(Sub(test.gammaCalc, gamma)), TestTolerance)

\* C9: pressureFromFL(FL) is pressureFromStandardAltitude(FL * 100 /
\* feetPerMeter, P0). It takes FL alone: whatever pressure and temperature of
\* the day the session has, the result is the one for P0, and it is not the
\* one for a pressure of the day other than P0.
C9_PressureFromFL ==
  last.fn = "pressureFromFL"
  => LET FL == last.args[1]
         height == Div(Mul(FL, IntNum(100)), feetPerMeter)
     IN  /\ Len(last.args) = 1
         /\ last.ret = pressureFromStandardAltitude(height, P0)
         /\ last.ret = pressureFromStandardAltitude(height, Undefined)
         /\ (pressureMSL \notin {Undefined, P0} /\ IsFinite(FL))
            => last.ret # pressureFromStandardAltitude(height, pressureMSL)

C9_Witness ==
  /\ last.fn = "pressureFromFL"
  /\ last.args = <<IntNum(115)>>
  /\ pressureMSL = IntNum(1017)
  /\ temperature = IntNum(40)
  /\ Close(last.ret, Num(1, 657, 2430, 0, 0), Num(1, 0, 10, 0, 0))

\* C10: FLFromPressure(pressure) returns altitudeFromStandardPressure(pressure,
\* P0) * feetPerMeter / 100 and does not round it: for a decimal pressure
\* other than P0, where the exact value is irrational, the result is finite
\* and not an integer.
C10_FLFromPressure ==
  last.fn = "FLFromPressure"
  => LET P == last.args[1]
     IN  /\ last.ret =
              Div(Mul(altitudeFromStandardPressure(P, P0), feetPerMeter),
                  IntNum(100))
         /\ (depth = 1 /\ P # P0)
            => (IsFinite(last.ret) /\ ~IsInteger(last.ret))

C10_Witness ==
  /\ last.fn = "FLFromPressure"
  /\ last.args = <<IntNum(821)>>
  /\ Close(last.ret, Num(1, 57, 796, 0, 0), Num(1, 0, 1, 0, 0))
  /\ ~IsInteger(last.ret)

\* One call of an exported function on arbitrary numbers.
Called(f) == last.fn = f /\ depth = 1

\* The domain-invalid inputs: a pressure <= 0, a height above 44330 m (the
\* negative base of a fractional power), mixingRatio(1000) and temp = K
\* (the zero denominators).
DomainInvalid ==
  \/ /\ last.fn \in {"altitudeFromStandardPressure", "altitudeFromPressure"}
     /\ Le(last.args[1], Zero) /\ IsFinite(last.args[1])
  \/ /\ last.fn = "pressureFromStandardAltitude"
     /\ Lt(IntNum(44330), last.args[1]) /\ IsFinite(last.args[1])
  \/ last.fn = "mixingRatio" /\ last.args[1] = IntNum(1000)
  \/ /\ last.fn \in {"pressureFromAltitude", "airDensity"}
     /\ last.args[3] = K

C12_AtOrAboveReferenceIsNaNOrInfinite ==
  (/\ last.fn = "altitudeFromPressure"
   /\ Positive(last.args[1])
   /\ Positive(Default(last.args[2], P0))
   /\ Le(Default(last.args[2], P0), last.args[1]))
  => last.ret.k \in {"nan", "inf"}

\* C12: for pressure >= pressure0, both positive, and a temp above K the
\* argument of the logarithm, pressure0 / pressure, is positive and at most 1,
\* and altitudeFromPressure returns a finite altitude: 0 when pressure =
\* pressure0 and a negative one when pressure > pressure0.
C12_AtOrAboveReferenceIsFinite ==
  last.fn = "altitudeFromPressure"
  => LET pressure == last.args[1]
         pressure0 == Default(last.args[2], P0)
         temp == Default(last.args[3], T0)
     IN  (/\ Positive(pressure) /\ Positive(pressure0)
          /\ Le(pressure0, pressure) /\ Positive(Sub(temp, K)))
         => /\ Positive(Div(pressure0, pressure))
            /\ Le(Div(pressure0, pressure), One)
            /\ IsFinite(last.ret)
            /\ (pressure = pressure0 => IsZero(last.ret))
            /\ (Lt(pressure0, pressure) => Lt(last.ret, Zero))

C12_Witness ==
  /\ last.fn = "altitudeFromPressure"
  /\ last.args = <<IntNum(1050), IntNum(1000), IntNum(40)>>
  /\ IsFinite(last.ret)
  /\ Lt(last.ret, IntNum(-400))

\* C13: however the calls of the calling contexts interleave, a call
\* returns exactly the value the same call returns when it runs alone.
C13_InterleavedCallsAgree ==
  \A c \in Contexts :
    frames[c].pc = "returned"
    => frames[c].ret = Apply(frames[c].fn, frames[c].args)

C13_Witness ==
  /\ frames[1].pc = "bound"
  /\ frames[1].fn = "altitudeFromPressure"
  /\ frames[1].args = <<IntNum(821), Undefined, Undefined>>
  /\ frames[2].pc = "returned"
  /\ frames[2].overlapped
  /\ frames[2].fn = "altitudeFromPressure"
  /\ frames[2].args = <<IntNum(821), IntNum(1017), IntNum(-20)>>
  /\ Close(frames[2].ret, Num(1, 1587, 7900, 0, 0), Num(1, 0, 100, 0, 0))

\* C14: after any sequence of calls, interleaved or not, every constant of
\* the module (G, Cp, L, gamma, ELR, P0, T0, Rd, Rv, Md, Mv, R, K,
\* feetPerMeter, HCR and the Sonntag coefficients) has its initial value, and
\* the assignment of a defaulted parameter changes the activation record of
\* its own call and nothing else.
C14_ConstantsKeepTheirValues ==
  /\ [](table = ConstantTable)
  /\ [][\A c \in Contexts :
          (frames[c].pc = "entered" /\ frames'[c].pc = "bound")
          => /\ table' = table
             /\ \A d \in Contexts \ {c} : frames'[d] = frames[d]
             /\ frames'[c].params =
                  WithDefaults(frames[c].fn, frames[c].args, ConstantTable)
             /\ frames'[c].args = frames[c].args]_vars

C14_Witness ==
  /\ frames[1].pc = "returned"
  /\ frames[1].fn = "altitudeFromStandardPressure"
  /\ frames[1].args = <<IntNum(821), Undefined>>
  /\ frames[1].params = <<IntNum(821), P0>>
  /\ frames[2].pc = "bound"
  /\ frames[2].args = <<IntNum(75), IntNum(1017), Undefined>>
  /\ frames[2].params = <<IntNum(75), IntNum(1017), T0>>
  /\ table = ConstantTable
  /\ table.P0 = Num(1, 1013, 2500, 0, 0)

\* C15: a call that omits an optional parameter returns what the same call
\* returns with the default passed, P0 = 1013.25 for a pressure and T0 = 15
\* for a temperature: altitudeFromPressure(p) = altitudeFromPressure(p, P0,
\* T0), pressureFromAltitude(h) = pressureFromAltitude(h, P0, T0) and
\* waterVaporSaturationPressure() = waterVaporSaturationPressure(T0);
\* altitudeFromPressure(P0) is within 5 m of 0 and pressureFromAltitude(0)
\* within 1 hPa of P0.
C15_OmittedIsDefault ==
  /\ P0 = Num(1, 1013, 2500, 0, 0)
  /\ T0 = IntNum(15)
  /\ last # NoCall
     => /\ last.ret =
             Apply(last.fn, WithDefaults(last.fn, last.args, ConstantTable))
        /\ (last.fn = "altitudeFromPressure"
             /\ last.args = <<P0, Undefined, Undefined>>)
           => (last.ret = altitudeFromPressure(P0, P0, T0)
               /\ Le(Abs(last.ret), IntNum(5)))
        /\ (last.fn = "pressureFromAltitude"
             /\ last.args = <<Zero, Undefined, Undefined>>)
           => (last.ret = pressureFromAltitude(Zero, P0, T0)
               /\ Le(Abs(Sub(last.ret, P0)), One))
        /\ (last.fn = "waterVaporSaturationPressure"
             /\ last.args = <<Undefined>>)
           => (last.ret = waterVaporSaturationPressure(T0)
               /\ Close(last.ret, Num(1, 17, 529, 0, 0), Num(1, 0, 1, 0, 0)))

C15_Witness ==
  /\ last.fn = "pressureFromAltitude"
  /\ last.args = <<Zero, Undefined, Undefined>>
  /\ last.ret = P0
  /\ prev.fn = "altitudeFromPressure"
  /\ prev.args = <<P0, Undefined, Undefined>>
  /\ prev.ret = Zero

\* Two points of a sweep of f, the earlier one in prev.
Swept(f) == prev.fn = f /\ last.fn = f

\* C16: altitudeFromStandardPressure is strictly decreasing in its pressure
\* argument: for a fixed pressure0 > 0 and pressures 0 < p1 < p2,
\* altitudeFromStandardPressure(p1, pressure0) >
\* altitudeFromStandardPressure(p2, pressure0).
C16_AltitudeDecreasesWithPressure ==
  (/\ Swept("altitudeFromStandardPressure")
   /\ prev.args[2] = last.args[2]
   /\ Positive(Default(last.args[2], P0))
   /\ Positive(prev.args[1])
   /\ Lt(prev.args[1], last.args[1]))
  => /\ IsFinite(prev.ret) /\ IsFinite(last.ret)
     /\ Lt(last.ret, prev.ret)

C16_Witness ==
  /\ Swept("altitudeFromStandardPressure")
  /\ prev.args = <<IntNum(1000), IntNum(1017)>>
  /\ last.args = <<Num(1, 1000, 10, 0, 0), IntNum(1017)>>
  /\ Lt(last.ret, prev.ret)
  /\ Lt(Sub(prev.ret, last.ret), Num(1, 0, 100, 0, 0))

\* C17: waterVaporSaturationPressure is strictly increasing in temperature
\* over the valid range: for -40 <= t1 < t2 <= 50,
\* waterVaporSaturationPressure(t1) < waterVaporSaturationPressure(t2), and
\* the result is positive.
C17_SaturationPressureIncreases ==
  (/\ Swept("waterVaporSaturationPressure")
   /\ Le(IntNum(-40), prev.args[1])
   /\ Lt(prev.args[1], last.args[1])
   /\ Le(last.args[1], IntNum(50)))
  => /\ Positive(prev.ret)
     /\ Lt(prev.ret, last.ret)

C17_Witness ==
  /\ Swept("waterVaporSaturationPressure")
  /\ prev.args = <<IntNum(-40)>>
  /\ last.args = <<IntNum(50)>>
  /\ Close(prev.ret, Num(1, 0, 1849, 0, 0), Num(1, 0, 10, 0, 0))
  /\ Close(last.ret, Num(1, 123, 3400, 0, 0), Num(1, 0, 1000, 0, 0))

\* C18: the standard-atmosphere pair agrees with the ICAO table in both
\* directions: for every row (alt, pres) of standardAtmosphere,
\* altitudeFromStandardPressure(pres) is within 1 m of alt and
\* pressureFromStandardAltitude(alt) is within 1 hPa of pres, pressure0
\* omitted.
C18_StandardAtmosphereTable ==
  /\ (last.fn = "altitudeFromStandardPressure" /\ last.args[2] = Undefined)
     => \A lvl \in standardAtmosphere :
          lvl.pres = last.args[1] => closeTo(last.ret, lvl.alt, One)
  /\ (last.fn = "pressureFromStandardAltitude" /\ last.args[2] = Undefined)
     => \A lvl \in standardAtmosphere :
          lvl.alt = last.args[1] => closeTo(last.ret, lvl.pres, One)

C18_Witness ==
  /\ Swept("pressureFromStandardAltitude")
  /\ prev.args = <<IntNum(1000), Undefined>>
  /\ closeTo(prev.ret, Num(1, 898, 7460, 0, 0), One)
  /\ last.args = <<IntNum(4000), Undefined>>
  /\ closeTo(last.ret, Num(1, 616, 4020, 0, 0), One)

C20_AirDensity ==
  last.fn = "airDensity"
  => LET rh == last.args[1]
         pressure == Default(last.args[2], P0)
         temp == Default(last.args[3], T0)
         Pv == Mul(Div(rh, IntNum(100)),
                   waterVaporSaturationPressure(temp))
         Pd == Sub(pressure, Pv)
     IN  /\ last.ret =
              Div(Mul(IntNum(100),
                      Add(Mul(Pd, Num(1, 0, 289, 6520, 0)),
                          Mul(Pv, Num(1, 0, 180, 1600, 0)))),
                  Mul(Num(1, 8, 3144, 6000, 0),
                      Add(temp, Num(1, 273, 1500, 0, 0))))
         /\ (rh = Zero /\ pressure = P0)
            => \A lvl \in dryAir :
                 lvl.t = temp
                 => closeTo(last.ret, lvl.rho, Num(1, 0, 10, 0, 0))

C20_Witness ==
  /\ Swept("airDensity")
  /\ prev.args = <<Zero, P0, IntNum(35)>>
  /\ closeTo(prev.ret, Num(1, 1, 1455, 0, 0), Num(1, 0, 10, 0, 0))
  /\ last.args = <<Zero, P0, IntNum(-15)>>
  /\ closeTo(last.ret, Num(1, 1, 3673, 0, 0), Num(1, 0, 10, 0, 0))

\* C21: LCL(temp, dewPoint) is 126.7 * (temp - dewPoint): it depends on the
\* spread alone (the same for temp and dewPoint both shifted, whatever the
\* pressure of the day), it is 0 when temp = dewPoint, and it is within 1 m
\* of the reference values LCL(25, 4) = 2660 and LCL(-6, -10) = 507.
C21_LCL ==
  last.fn = "LCL"
  => LET t == last.args[1]
         td == last.args[2]
     IN  /\ Len(last.args) = 2
         /\ last.ret = Mul(Num(1, 126, 7000, 0, 0), Sub(t, td))
         /\ \A shift \in {IntNum(-30), Num(1, 7, 2500, 0, 0)} :
              LCL(Add(t, shift), Add(td, shift)) = last.ret
         /\ (Swept("LCL") /\ Sub(prev.args[1], prev.args[2]) = Sub(t, td))
            => prev.ret = last.ret
         /\ t = td => last.ret = Zero
         /\ last.args = <<IntNum(25), IntNum(4)>>
            => closeTo(last.ret, IntNum(2660), One)
         /\ last.args = <<IntNum(-6), IntNum(-10)>>
            => closeTo(last.ret, IntNum(507), One)

C21_Witness ==
  /\ Swept("LCL")
  /\ prev.args = <<IntNum(40), IntNum(40)>>
  /\ prev.ret = Zero
  /\ pressureMSL = IntNum(1017)
  /\ last.args = <<IntNum(25), IntNum(4)>>
  /\ last.ret = Num(1, 2660, 7000, 0, 0)

\* C22: gammaMoist(temp, pressure) computes tK = temp - K,
\* es = 6.113 * exp(5423 * (-1 / K - 1 / tK)), rs = 0.622 * es / (pressure -
\* es) and returns G * 1e-3 * (1 + 8711 * rs / tK) / (1 + 1.35e7 * rs / tK^2)
\* with G = 9.81; on the reference rows (pressure, temp, rate) = (1000, -40,
\* 9.5e-3), (1000, -20, 8.6e-3), (1000, 20, 4.3e-3), (1000, 40, 3.0e-3),
\* (600, -20, 8.3e-3) the result is within 1e-3 of rate.
C22_GammaMoist ==
  last.fn = "gammaMoist"
  => LET pressure == Default(last.args[2], P0)
         tK == Add(last.args[1], Num(1, 273, 1500, 0, 0))
         es == Mul(Num(1, 6, 1130, 0, 0),
                   Exp(Mul(IntNum(5423),
                           Sub(Div(IntNum(-1), Num(-1, 273, 1500, 0, 0)),
                               Div(One, tK)))))
         rs == Div(Mul(Num(1, 0, 6220, 0, 0), es), Sub(pressure, es))
         MALR == {<<IntNum(-40), IntNum(1000), Num(1, 0, 95, 0, 0)>>,
                  <<IntNum(-20), IntNum(1000), Num(1, 0, 86, 0, 0)>>,
                  <<IntNum(20), IntNum(1000), Num(1, 0, 43, 0, 0)>>,
                  <<IntNum(40), IntNum(1000), Num(1, 0, 30, 0, 0)>>,
                  <<IntNum(-20), IntNum(600), Num(1, 0, 83, 0, 0)>>}
     IN  /\ G = Num(1, 9, 8100, 0, 0)
         /\ last.ret =
              Div(Mul(Mul(Num(1, 9, 8100, 0, 0), Num(1, 0, 10, 0, 0)),
                      Add(One, Div(Mul(IntNum(8711), rs), tK))),
                  Add(One, Div(Mul(IntNum(13500000), rs), Mul(tK, tK))))
         /\ \A lvl \in MALR :
              last.args = <<lvl[1], lvl[2]>>
              => closeTo(last.ret, lvl[3], Num(1, 0, 10, 0, 0))

C22_Witness ==
  /\ Swept("gammaMoist")
  /\ prev.args = <<IntNum(-40), IntNum(1000)>>
  /\ closeTo(prev.ret, Num(1, 0, 95, 5684, 0), Num(1, 0, 0, 100, 0))
  /\ last.args = <<IntNum(-20), IntNum(600)>>
  /\ closeTo(last.ret, Num(1, 0, 80, 2093, 0), Num(1, 0, 0, 100, 0))

\* C23: for volume0 > 0 and pressure, pressure0 > 0, the volume V returned by
\* adiabaticExpansion(volume0, pressure, pressure0) satisfies the documented
\* isentropic relation (pressure / pressure0) = (V / volume0) ^ gamma, with
\* the heat capacity ratio gamma = 1.4.
C23_DocumentedIsentropicRelation ==
  last.fn = "adiabaticExpansion"
  => LET volume0 == last.args[1]
         pressure == last.args[2]
         pressure0 == Default(last.args[3], P0)
     IN  (Positive(volume0) /\ Positive(pressure) /\ Positive(pressure0))
         => /\ HCR = Num(1, 1, 4000, 0, 0)
            /\ Close(Div(pressure, pressure0),
                     Pow(Div(last.ret, volume0), HCR), Eps)

\* C24: the exported constant L, the latent heat (enthalpy) of vaporization
\* of water in J/kg, has the value 2.5e6, whatever calls have been made.
C24_LatentHeat ==
  /\ table.L = IntNum(2500000)
  /\ table.L = Mul(Num(1, 2, 5000, 0, 0), IntNum(1000000))
  /\ L = table.L

C24_Witness ==
  /\ \A c \in Contexts : frames[c].pc = "returned"
  /\ frames[1].fn = "airDensity"
  /\ table.L = IntNum(2500000)
  /\ table.Cp = IntNum(1005)

\* The last call continues the previous call of the same function f: it
\* starts from the value and at the pressure where the previous one ended.
Continued(f) ==
  /\ Swept(f)
  /\ last.args[1] = prev.ret
  /\ last.args[3] = prev.args[2]

\* C25: adiabatic cooling is path-independent. For any temp0 and positive
\* pressures p0, p1, p2, adiabaticCooling(adiabaticCooling(temp0, p1, p0),
\* p2, p1) = adiabaticCooling(temp0, p2, p0); adiabaticCooling(temp0, p, p)
\* = temp0; cooling p0 -> p1 followed by p1 -> p0 returns temp0; and a
\* pressure drop (p < p0) with temp0 > K yields a result below temp0.
C25_CoolingPathIndependent ==
  last.fn = "adiabaticCooling"
  => LET temp0 == last.args[1]
         p == last.args[2]
         p0 == Default(last.args[3], P0)
         start == Default(prev.args[3], P0)
     IN  (IsFinite(temp0) /\ Positive(p) /\ Positive(p0))
         => /\ p = p0 => Close(last.ret, temp0, Eps)
            /\ (Lt(p, p0) /\ Lt(K, temp0)) => Lt(last.ret, temp0)
            /\ (Continued("adiabaticCooling") /\ Positive(start))
               => /\ Close(last.ret,
                           adiabaticCooling(prev.args[1], p, start), Eps)
                  /\ p = start => Close(last.ret, prev.args[1], Eps)

C25_Witness ==
  /\ Continued("adiabaticCooling")
  /\ prev.args = <<IntNum(40), IntNum(821), IntNum(1017)>>
  /\ Lt(prev.ret, IntNum(22)) /\ Lt(IntNum(21), prev.ret)
  /\ last.args[2] = IntNum(1017)
  /\ Close(last.ret, IntNum(40), Eps)

\* C26: hypsometric layers compose additively at a fixed temp above absolute
\* zero. For positive pressures p0, p1, p2, altitudeFromPressure(p2, p0,
\* temp) = altitudeFromPressure(p1, p0, temp) + altitudeFromPressure(p2, p1,
\* temp); for any heights h1, h2, pressureFromAltitude(h2,
\* pressureFromAltitude(h1, p0, temp), temp) = pressureFromAltitude(h1 + h2,
\* p0, temp); altitudeFromPressure(p0, p0, temp) = 0 and
\* pressureFromAltitude(0, p0, temp) = p0.
C26_LayersCompose ==
  LET temp == Default(last.args[3], T0)
      p0 == Default(last.args[2], P0)
      start == Default(prev.args[2], P0)
      fixed == prev.args[3] = last.args[3]
  IN  /\ (/\ last.fn = "altitudeFromPressure"
          /\ Lt(K, temp) /\ Positive(last.args[1]) /\ Positive(p0))
         => /\ last.args[1] = p0 => Close(last.ret, Zero, Eps)
            /\ (/\ Swept("altitudeFromPressure") /\ fixed
                /\ last.args[2] = prev.args[1] /\ Positive(start))
               => Close(Add(prev.ret, last.ret),
                        altitudeFromPressure(last.args[1], start, temp), Eps)
      /\ (/\ last.fn = "pressureFromAltitude"
          /\ Lt(K, temp) /\ IsFinite(last.args[1]) /\ Positive(p0))
         => /\ last.args[1] = Zero => Close(last.ret, p0, Eps)
            /\ (/\ Swept("pressureFromAltitude") /\ fixed
                /\ last.args[2] = prev.ret /\ Positive(start))
               => Close(last.ret,
                        pressureFromAltitude(Add(prev.args[1], last.args[1]),
                                             start, temp), Eps)

C26_Witness ==
  /\ Swept("altitudeFromPressure")
  /\ temperature = IntNum(-20)
  /\ prev.args = <<Num(1, 898, 7460, 0, 0), IntNum(1017), IntNum(-20)>>
  /\ last.args = <<IntNum(200), Num(1, 898, 7460, 0, 0), IntNum(-20)>>
  /\ Close(prev.ret, Num(1, 916, 8662, 0, 0), Eps)
  /\ Close(Add(prev.ret, last.ret), Num(1, 12062, 7100, 0, 0), Eps)

\* C27: the flight-level conversions are mutually inverse and anchored at
\* P0. FLFromPressure(pressureFromFL(FL)) = FL for every FL with FL * 100 /
\* feetPerMeter < 44330; pressureFromFL(FLFromPressure(P)) = P for every
\* P > 0; pressureFromFL(0) = P0 and FLFromPressure(P0) = 0; and
\* pressureFromFL is strictly decreasing in FL on that range (for flight
\* levels more than Eps apart, equalities to Eps: the rounding of the
\* arithmetic).
C27_FlightLevelInverse ==
  LET InRange(FL) ==
        /\ IsFinite(FL)
        /\ Lt(Div(Mul(FL, IntNum(100)), feetPerMeter), IntNum(44330))
  IN  /\ (last.fn = "pressureFromFL" /\ InRange(last.args[1]))
         => /\ last.args[1] = Zero => Close(last.ret, P0, Eps)
            /\ \A FL \in FlightLevels :
                 /\ Lt(Add(last.args[1], Eps), FL)
                    => Lt(pressureFromFL(FL), last.ret)
                 /\ Lt(Add(FL, Eps), last.args[1])
                    => Lt(last.ret, pressureFromFL(FL))
            /\ (/\ Chained("FLFromPressure", "pressureFromFL")
                /\ last.args[1] = prev.ret /\ Positive(prev.args[1]))
               => Close(last.ret, prev.args[1], Eps)
      /\ (last.fn = "FLFromPressure" /\ Positive(last.args[1]))
         => /\ last.args[1] = P0 => Close(last.ret, Zero, Eps)
            /\ (/\ Chained("pressureFromFL", "FLFromPressure")
                /\ last.args[1] = prev.ret /\ InRange(prev.args[1]))
               => Close(last.ret, prev.args[1], Eps)

C27_Witness ==
  /\ Chained("pressureFromFL", "FLFromPressure")
  /\ prev.args = <<IntNum(115)>>
  /\ Close(prev.ret, Num(1, 657, 2430, 0, 0), Num(1, 0, 10, 0, 0))
  /\ last.args = <<prev.ret>>
  /\ Close(last.ret, IntNum(115), Eps)

\* Two calls of airDensity in a row at the same temperature above absolute
\* zero.
SameAir ==
  /\ Swept("airDensity")
  /\ Default(prev.args[3], T0) = Default(last.args[3], T0)
  /\ Lt(K, Default(last.args[3], T0))

\* The relative humidity alone was raised from the previous call to the last.
HumidityRaised ==
  /\ SameAir
  /\ Default(prev.args[2], P0) = Default(last.args[2], P0)
  /\ Lt(prev.args[1], last.args[1])

\* The pressure alone was raised from the previous call to the last.
PressureRaised ==
  /\ SameAir
  /\ prev.args[1] = last.args[1]
  /\ Lt(Default(prev.args[2], P0), Default(last.args[2], P0))

\* C28 as stated: for a fixed pressure and a fixed temp with temp - K > 0,
\* airDensity is strictly decreasing in relativeHumidity, and for a fixed
\* relativeHumidity and temp it is strictly increasing in pressure.
C28_DensityMonotoneAboveAbsoluteZero ==
  /\ HumidityRaised => Lt(last.ret, prev.ret)
  /\ PressureRaised => Lt(prev.ret, last.ret)

\* C28, amended: the same for a temp of at least -100, where the saturation
\* pressure is positive, finite and above rounding. The condition temp - K >
\* 0 is not enough: at temp = -237.3 the saturation pressure is 0 and
\* airDensity is the same for every relativeHumidity (it still increases
\* with the pressure); just below -237.3 the saturation pressure is
\* Infinity and airDensity is NaN.
C28_DensityMonotoneInAtmosphere ==
  LET temp == Default(last.args[3], T0)
      Psat == waterVaporSaturationPressure(temp)
  IN  /\ (HumidityRaised /\ Le(IntNum(-100), temp))
         => (Positive(Psat) /\ Lt(last.ret, prev.ret))
      /\ (PressureRaised /\ Le(IntNum(-100), temp)) => Lt(prev.ret, last.ret)
      /\ (HumidityRaised /\ temp = Num(-1, 237, 3000, 0, 0))
         => (Psat = Zero /\ last.ret = prev.ret /\ Positive(last.ret))
      /\ (PressureRaised /\ temp = Num(-1, 237, 3000, 0, 0))
         => Lt(prev.ret, last.ret)
      /\ (last.fn = "airDensity" /\ temp = IntNum(-238))
         => (Psat = Inf(1) /\ IsNaN(last.ret))

C28_Witness ==
  /\ HumidityRaised
  /\ prev.args = <<IntNum(35), IntNum(1017), IntNum(40)>>
  /\ last.args = <<IntNum(100), IntNum(1017), IntNum(40)>>
  /\ Close(prev.ret, Num(1, 1, 1205, 0, 0), Num(1, 0, 10, 0, 0))
  /\ Close(last.ret, Num(1, 1, 1004, 0, 0), Num(1, 0, 10, 0, 0))

\* The rewriting of every chunk the generator has read, in arrival order.
Emitted == [i \in 1..stdin.read |-> Convert(stdin.chunks[i])]

\* C29: gen_cpp emits its output in a fixed order for any sequence of stdin
\* events: first the prologue (#include <math.h> and, under __cplusplus, the
\* opening of namespace velitherm), then the rewriting of each 'data' chunk
\* in arrival order, then the epilogue that closes the namespace, exactly
\* once, on the 'end' event and after the last chunk; nothing is written
\* after the epilogue.
C29_OutputOrder ==
  /\ [](/\ pc = "load" => stdout = <<>>
        /\ pc = "listening"
           => /\ stdout = <<Prologue>> \o Emitted
              /\ stdout[1][2] = "#include <math.h>\n"
              /\ SubSeq(stdout[1], 4, 5)
                 = <<"#ifdef __cplusplus\n", "namespace velitherm {\n">>
        /\ pc = "ended"
           => /\ stdin.read = Len(stdin.chunks)
              /\ stdout = (<<Prologue>> \o Emitted) \o <<Epilogue>>
              /\ SubSeq(stdout[Len(stdout)], 3, 5)
                 = <<"#ifdef __cplusplus\n", "}\n", "#endif\n">>
              /\ Cardinality({i \in DOMAIN stdout : stdout[i] = Epilogue})
                 = 1)
  /\ [][/\ pc = "ended" => stdout' = stdout
        /\ stdout' # stdout
           => /\ Len(stdout') = Len(stdout) + 1
              /\ SubSeq(stdout', 1, Len(stdout)) = stdout
        /\ (stdout' # stdout /\ stdout'[Len(stdout')] = Epilogue)
           => /\ pc = "listening" /\ pc' = "ended"
              /\ stdin.read = Len(stdin.chunks)]_vars

C29_Witness ==
  /\ pc = "ended"
  /\ stdin.read = 2
  /\ stdin.chunks[1] = <<"e", "x", "p", "o", "r", "t">>
  /\ Len(stdout) = 4
  /\ stdout[1] = Prologue
  /\ stdout[2] = <<"e", "x", "p", "o", "r", "t">>
  /\ stdout[3] = Convert(stdin.chunks[2])
  /\ stdout[4] = Epilogue

\* C30: the header gen_cpp generates does not depend on how stdin is split
\* into 'data' chunks: once the input has ended, the concatenation of what
\* was written equals the prologue, the rewriting of the whole text as one
\* chunk, and the epilogue.
C30_ChunkingIndependent ==
  pc = "ended"
  => Flatten(stdout)
     = (Prologue \o Convert(Flatten(stdin.chunks))) \o Epilogue

====
